---- MODULE Spec2Model ----
(***************************************************************************)
(* A model of the sparkwheel configuration pipeline: the composition       *)
(* engine (merge.py), the Config facade (config.py), the item classifier   *)
(* (config_parser.py) and the resolver.                                    *)
(*                                                                         *)
(* Representation.  A Python string is a sequence of tokens (a token is a  *)
(* sigil such as "@", "%", "$", "+", "~", "=", the separator "::", or a    *)
(* name); a configuration value is a tagged record                         *)
(*    [k |-> "dict", v |-> <<[key |-> string, val |-> node], ...>>]        *)
(*    [k |-> "list", v |-> <<node, ...>>]                                  *)
(*    [k |-> "str",  v |-> string]      [k |-> "int",  v |-> <<digits>>]   *)
(*    [k |-> "bool", v |-> <<"true">>]  [k |-> "none", v |-> <<>>]         *)
(* A dict keeps its entries in insertion order, as a Python dict does.     *)
(***************************************************************************)
EXTENDS Integers, Sequences, FiniteSets, TLC

VARIABLES
    m_base,        \* merge_configs: the `base` argument of the call
    m_override,    \* merge_configs: the `override` argument of the call
    m_result,      \* merge_configs: the outcome of the call (value or raised error)
    m_phase,       \* "input" before the call, "done" after it
    m_count,       \* number of merge_configs calls chained so far
    c_data,        \* Config._data: the configuration tree
    c_is_parsed,   \* Config._is_parsed
    r_items,       \* Resolver.items: id -> item
    r_resolved,    \* Resolver.resolved: id -> value (the memo)
    r_in_progress, \* Resolver.in_progress: the ids being resolved, in insertion order
    c_last,        \* history: the last call on the Config, its arguments and outcome
    g_evals,       \* history: ids whose expression/component the host ran, since the
                   \* last set/merge call or resolve(lazy=false)
    g_writes,      \* history: ids written to the memo, over the same period
    g_mut,         \* history: no parse has completed since load or the last set/merge
                   \* that returned
    g_clean,       \* history: a parse has completed and no set/merge was called since
    c_nops,        \* number of calls made on the Config
    h_heap,        \* the dict and list objects of a Config's tree, by address
    h_data,        \* Config._data over the heap: a reference or a scalar
    h_phase,       \* "loaded", then "parsed" or "failed", then "mutated"
    h_sites,       \* history: the macro sites of the loaded tree and their sources
    h_before,      \* history: the tree before the last in-place assignment
    h_mut,         \* history: the last in-place assignment
    h_nmut,        \* number of in-place assignments made
    p_data,        \* preprocessing: Config._data of the Config being preprocessed
    p_loaded,      \* history: the tree as it was loaded
    p_out,         \* preprocessing: the outcome of _resolve_macros_and_relative_ids
    p_stack,       \* preprocessing: the set _macro_stack the run leaves behind
    p_phase,       \* "loaded" before the run, "done" after it
    rr_id,         \* resolve_relative_ids: the argument `id`
    rr_value,      \* resolve_relative_ids: the argument `value`
    rr_out,        \* resolve_relative_ids: the outcome of the call
    rr_phase,      \* "input" before the call, "done" after it
    hm_heap,       \* merge_configs over objects: the dict and list objects, by address
    hm_base,       \* the `base` argument: a reference
    hm_override,   \* the `override` argument: a reference
    hm_result,     \* the outcome of the call: a reference or scalar, or the error
    hm_phase,      \* "input", then "merged", then "mutated"
    hm_orig,       \* history: the trees of base and override before the call
    hm_nmut,       \* number of in-place assignments made into the result
    ld_data,       \* loading: Config._data of a Config that loads and merges files
    ld_registry,   \* loading: Config._metadata, the MetadataRegistry of that Config
    ld_last,       \* history: the last document loaded by Loader.load_file and the
                   \* (config, registry) it returned
    cp_config,     \* loading: ConfigParser.config of a parser that merges files
    cp_metadata,   \* loading: ConfigParser._metadata: id -> SourceLocation
    ld_n,          \* number of files loaded
    o_heap,        \* ownership: the dict and list objects of the program
    o_source,      \* ownership: the caller's variable holding the dict passed to load
    o_data,        \* ownership: Config._data of the Config that load returned
    o_is_parsed,   \* ownership: Config._is_parsed of that Config
    o_loaded,      \* history: the caller's tree at the time of the load call
    o_last,        \* history: the last call on that Config
    o_n,           \* number of calls on that Config
    d_config1,     \* diff_configs: the dict passed as path1
    d_config2,     \* diff_configs: the dict passed as path2
    d_ignore,      \* diff_configs: ignore_keys
    d_out,         \* diff_configs: the ConfigDiff returned
    d_n            \* number of diff_configs calls

mergeVars == <<m_base, m_override, m_result, m_phase, m_count>>

configVars == <<c_data, c_is_parsed, r_items, r_resolved, r_in_progress,
                c_last, g_evals, g_writes, g_mut, g_clean, c_nops>>

heapVars == <<h_heap, h_data, h_phase, h_sites, h_before, h_mut, h_nmut>>

preVars == <<p_data, p_loaded, p_out, p_stack, p_phase>>

\* the variables of the specifications of single operations
relVars == <<rr_id, rr_value, rr_out, rr_phase>>

heapMergeVars == <<hm_heap, hm_base, hm_override, hm_result, hm_phase, hm_orig, hm_nmut>>

loadVars == <<ld_data, ld_registry, ld_last, cp_config, cp_metadata, ld_n>>

ownVars == <<o_heap, o_source, o_data, o_is_parsed, o_loaded, o_last, o_n>>

diffVars == <<d_config1, d_config2, d_ignore, d_out, d_n>>

auxVars == <<preVars, relVars, heapMergeVars, loadVars, ownVars, diffVars>>

vars == <<mergeVars, configVars, heapVars, auxVars>>

\* the preprocessing part of the state while it is not exercised
PreIdle ==
    /\ p_data = <<>> /\ p_loaded = <<>> /\ p_out = <<>> /\ p_stack = {}
    /\ p_phase = "idle"

\* the resolve_relative_ids part of the state while it is not exercised
RelIdle == rr_id = <<>> /\ rr_value = <<>> /\ rr_out = <<>> /\ rr_phase = "idle"

\* the part of the state of merge_configs over objects while it is not exercised
HeapMergeIdle ==
    /\ hm_heap = <<>> /\ hm_base = <<>> /\ hm_override = <<>> /\ hm_result = <<>>
    /\ hm_phase = "idle" /\ hm_orig = <<>> /\ hm_nmut = 0

\* the loading part of the state while it is not exercised
LoadIdle ==
    /\ ld_data = <<>> /\ ld_registry = <<>> /\ ld_last = <<>>
    /\ cp_config = <<>> /\ cp_metadata = <<>> /\ ld_n = 0

\* the ownership part of the state while it is not exercised
OwnIdle ==
    /\ o_heap = <<>> /\ o_source = <<>> /\ o_data = <<>> /\ o_is_parsed = FALSE
    /\ o_loaded = <<>> /\ o_last = <<>> /\ o_n = 0

\* the diff_configs part of the state while it is not exercised
DiffIdle ==
    /\ d_config1 = <<>> /\ d_config2 = <<>> /\ d_ignore = {} /\ d_out = <<>> /\ d_n = 0

AuxIdle == PreIdle /\ RelIdle /\ HeapMergeIdle /\ LoadIdle /\ OwnIdle /\ DiffIdle

\* the heap part of the state while it is not exercised
HeapIdle ==
    /\ h_heap = <<>> /\ h_data = <<>> /\ h_phase = "idle" /\ h_sites = {}
    /\ h_before = <<>> /\ h_mut = <<>> /\ h_nmut = 0

\* the Config part of the state while only merge_configs is exercised
ConfigIdle ==
    /\ c_data = <<>> /\ c_is_parsed = FALSE
    /\ r_items = <<>> /\ r_resolved = <<>> /\ r_in_progress = <<>>
    /\ c_last = <<>> /\ g_evals = <<>> /\ g_writes = <<>>
    /\ g_mut = FALSE /\ g_clean = FALSE /\ c_nops = 0

\* the merge_configs part of the state while only the Config is exercised
MergeIdle ==
    /\ m_base = <<>> /\ m_override = <<>> /\ m_result = <<>>
    /\ m_phase = "idle" /\ m_count = 0

-----------------------------------------------------------------------------
(* Values *)

Str(toks) == [k |-> "str", v |-> toks]

Num(tok) == [k |-> "int", v |-> <<tok>>]

None == [k |-> "none", v |-> <<>>]

True == [k |-> "bool", v |-> <<"true">>]

Dict(entries) == [k |-> "dict", v |-> entries]

List(elems) == [k |-> "list", v |-> elems]

Ent(key, val) == [key |-> key, val |-> val]

\* Outcome of a call: a returned value, or a raised exception.
Ok(val) == [ok |-> TRUE, val |-> val]

Raise(err) == [ok |-> FALSE, err |-> err]

NotRun == [ok |-> FALSE, err |-> "not run"]

isinstance(x, kind) == x.k = kind

\* `key in d` for a dict node d
HasKey(d, key) == \E i \in DOMAIN d.v : d.v[i].key = key

\* d[key]
GetKey(d, key) == d.v[CHOOSE i \in DOMAIN d.v : d.v[i].key = key].val

\* d[key] = val: an existing key keeps its position, a new key goes last
SetKey(d, key, val) ==
    IF HasKey(d, key)
    THEN Dict([i \in DOMAIN d.v |-> IF d.v[i].key = key THEN Ent(key, val) ELSE d.v[i]])
    ELSE Dict(Append(d.v, Ent(key, val)))

RECURSIVE SeqFilterKey(_, _)
SeqFilterKey(ents, key) ==
    IF ents = <<>> THEN <<>>
    ELSE IF Head(ents).key = key THEN SeqFilterKey(Tail(ents), key)
         ELSE <<Head(ents)>> \o SeqFilterKey(Tail(ents), key)

\* del d[key]
DelKey(d, key) == Dict(SeqFilterKey(d.v, key))

KeysOf(d) == {d.v[i].key : i \in DOMAIN d.v}

\* str.startswith(c) for a one-character prefix c
startswith(s, c) == Len(s) > 0 /\ s[1] = c

\* the tokens int() accepts
IntToks == {"0", "1", "2", "3", "4", "-1", "-2"}

\* int(tok)
IntOf(tok) ==
    CASE tok = "0" -> 0 [] tok = "1" -> 1 [] tok = "2" -> 2 [] tok = "3" -> 3
      [] tok = "4" -> 4 [] tok = "-1" -> -1 [] tok = "-2" -> -2

\* copy.deepcopy: on values (no object identity) the copy equals the original
deepcopy(x) == x

\* `name = value` followed by the statements Body that use name
With(value, Body(_)) == Body(value)

-----------------------------------------------------------------------------
(* merge.py *)

RECURSIVE _has_merge_directive(_)
_has_merge_directive(config) ==
    IF ~isinstance(config, "dict") THEN FALSE
    ELSE \E i \in DOMAIN config.v :
            \/ startswith(config.v[i].key, "+")
            \/ _has_merge_directive(config.v[i].val)

\* the override list in front of the base list
list_concat_reversed(a, b) == List(b.v \o a.v)

\* result[actual_key] + value, for two lists
list_concat(a, b) == List(a.v \o b.v)

RECURSIVE merge_configs(_, _, _)
RECURSIVE merge_loop(_, _, _, _)

\* the body of `for key, value in override.items()` from entry i on
merge_loop(result, items, i, _in_merge_context) ==
    IF i > Len(items) THEN Ok(result)
    ELSE
      LET key == items[i].key
          value == items[i].val
          actual_key == Tail(key)
      IN
      IF startswith(key, "~") THEN
          IF ~HasKey(result, actual_key) THEN Raise("ConfigMergeError")
          ELSE merge_loop(DelKey(result, actual_key), items, i + 1, _in_merge_context)
      ELSE IF startswith(key, "+") THEN
          IF ~HasKey(result, actual_key) THEN Raise("ConfigMergeError")
          ELSE
            LET cur == GetKey(result, actual_key) IN
            IF isinstance(cur, "dict") /\ isinstance(value, "dict") THEN
                LET r == merge_configs(cur, value, TRUE) IN
                IF ~r.ok THEN r
                ELSE merge_loop(SetKey(result, actual_key, r.val), items, i + 1, _in_merge_context)
            ELSE IF isinstance(cur, "list") /\ isinstance(value, "list") THEN
                merge_loop(SetKey(result, actual_key, list_concat(cur, value)),
                           items, i + 1, _in_merge_context)
            ELSE Raise("ConfigMergeError")
      ELSE
          LET should_merge == _in_merge_context \/ _has_merge_directive(value) IN
          IF /\ should_merge
             /\ HasKey(result, key)
             /\ isinstance(GetKey(result, key), "dict")
             /\ isinstance(value, "dict")
          THEN
              LET r == merge_configs(GetKey(result, key), value, TRUE) IN
              IF ~r.ok THEN r
              ELSE merge_loop(SetKey(result, key, r.val), items, i + 1, _in_merge_context)
          ELSE merge_loop(SetKey(result, key, deepcopy(value)), items, i + 1, _in_merge_context)

merge_configs(base, override, _in_merge_context) ==
    IF ~isinstance(base, "dict") \/ ~isinstance(override, "dict")
    THEN Ok(deepcopy(override))
    ELSE merge_loop(deepcopy(base), override.v, 1, _in_merge_context)

-----------------------------------------------------------------------------
(* Inputs of the merge_configs specification *)

MaxMerges == 1

K(name) == <<name>>

Op(sigil, name) == <<sigil, name>>

StrList(names) == List([i \in DOMAIN names |-> Str(<<names[i]>>)])

NumList(digits) == List([i \in DOMAIN digits |-> Num(digits[i])])

MergeBases ==
    { Dict(<<Ent(K("m"), Dict(<<Ent(K("lr"), Num("1")), Ent(K("h"), Num("2"))>>))>>),
      Dict(<<Ent(K("p"), StrList(<<"a", "b", "c", "d", "e">>))>>),
      Dict(<<Ent(K("a"), Num("1")),
             Ent(K("b"), Dict(<<Ent(K("x"), Num("1")), Ent(K("y"), Num("2"))>>))>>),
      Dict(<<Ent(K("a"), Num("1"))>>),
      Dict(<<Ent(K("p"), StrList(<<"a", "b">>)), Ent(K("a"), Num("1"))>>),
      Dict(<<Ent(K("m"), Dict(<<Ent(K("opt"), Dict(<<Ent(K("lr"), Num("1")),
                                                     Ent(K("h"), Num("2"))>>)),
                                Ent(K("n"), StrList(<<"a">>))>>))>>),
      Dict(<<>>) }

MergeOverrides ==
    { Dict(<<Ent(K("m"), Dict(<<Ent(K("dropout"), Num("3"))>>))>>),
      Dict(<<Ent(Op("=", "m"), Dict(<<Ent(K("dropout"), Num("3"))>>))>>),
      Dict(<<Ent(K("b"), Dict(<<Ent(K("z"), Num("3"))>>))>>),
      Dict(<<Ent(Op("=", "b"), Dict(<<Ent(K("z"), Num("3"))>>))>>),
      Dict(<<Ent(Op("+", "b"), Dict(<<Ent(K("z"), Num("3"))>>))>>),
      Dict(<<Ent(K("b"), Dict(<<Ent(Op("+", "x"), Num("3")), Ent(K("z"), Num("3"))>>))>>),
      Dict(<<Ent(K("a"), Num("2"))>>),
      Dict(<<Ent(Op("~", "b"), None)>>),
      Dict(<<Ent(Op("~", "a"), None)>>),
      Dict(<<Ent(K("p"), StrList(<<"c", "a">>))>>),
      Dict(<<Ent(Op("+", "p"), StrList(<<"c">>))>>),
      Dict(<<Ent(Op("=", "p"), StrList(<<"x", "y">>))>>),
      Dict(<<Ent(Op("~", "p"), NumList(<<"0", "2", "4">>))>>),
      Dict(<<Ent(Op("~", "p"), NumList(<<"1", "1", "-1">>))>>),
      Dict(<<Ent(K("q"), StrList(<<"c">>)), Ent(Op("+", "q"), StrList(<<"d">>))>>),
      Dict(<<Ent(Op("~", "b"), None), Ent(Op("+", "b"), Dict(<<Ent(K("z"), Num("3"))>>))>>),
      Dict(<<Ent(Op("+", "a"), Num("2"))>>),
      Dict(<<Ent(K("b"), Dict(<<Ent(Op("+", "x"), Num("10")), Ent(K("z"), Num("3"))>>))>>),
      Dict(<<Ent(K("m"), Dict(<<Ent(K("opt"), Dict(<<Ent(K("wd"), Num("3"))>>)),
                                Ent(Op("+", "n"), StrList(<<"b">>))>>))>>),
      Dict(<<>>) }

-----------------------------------------------------------------------------
(* Specification of merge_configs as a function of its two arguments *)

MergeInit ==
    /\ m_base \in MergeBases
    /\ m_override \in MergeOverrides
    /\ m_result = NotRun
    /\ m_phase = "input"
    /\ m_count = 0
    /\ ConfigIdle
    /\ HeapIdle
    /\ AuxIdle

\* result = merge_configs(base, override)
MergeCall ==
    /\ m_phase = "input"
    /\ m_result' = merge_configs(m_base, m_override, FALSE)
    /\ m_phase' = "done"
    /\ UNCHANGED <<m_base, m_override, m_count>>
    /\ UNCHANGED <<configVars, heapVars, auxVars>>

\* the returned tree becomes the base of a further merge (Config.load over a
\* list of files, config.py:149-153)
MergeAgain ==
    /\ m_phase = "done"
    /\ m_result.ok
    /\ m_count < MaxMerges
    /\ m_base' = m_result.val
    /\ m_override' \in MergeOverrides
    /\ m_result' = NotRun
    /\ m_phase' = "input"
    /\ m_count' = m_count + 1
    /\ UNCHANGED <<configVars, heapVars, auxVars>>

MergeNext == MergeCall \/ MergeAgain

SpecMerge == MergeInit /\ [][MergeNext]_vars

-----------------------------------------------------------------------------
(* Claims about merge_configs *)

\* a key written without an operator prefix
IsPlainKey(key) == ~startswith(key, "+") /\ ~startswith(key, "~") /\ ~startswith(key, "=")

\* the key a (possibly prefixed) override key names
NamedKey(key) == IF IsPlainKey(key) THEN key ELSE Tail(key)

NamedKeys(d) == {NamedKey(d.v[i].key) : i \in DOMAIN d.v}

\* the override is the single entry {sigil k: value}
IsSingleOp(d, sigil) == Len(d.v) = 1 /\ startswith(d.v[1].key, sigil)

\* the position (from 0) an index addresses in a list of length n
NormIndex(tok, n) == IF IntOf(tok) < 0 THEN n + IntOf(tok) ELSE IntOf(tok)

RECURSIVE DropIndices(_, _, _)
\* the elements of elems whose position (from 0, starting at pos) is not in drop
DropIndices(elems, pos, drop) ==
    IF elems = <<>> THEN <<>>
    ELSE (IF pos \in drop THEN <<>> ELSE <<Head(elems)>>)
         \o DropIndices(Tail(elems), pos + 1, drop)

\* C1: after merge(base, override), for every key k written without an operator
\* prefix and present in both trees: when base[k] and override[k] are both
\* mappings, result[k] keeps every key of base[k] that override[k] does not
\* name; when both are lists, result[k] = base[k] ++ override[k]; otherwise
\* result[k] = override[k].
C1_DefaultCompose ==
    (m_phase = "done" /\ m_result.ok) =>
        \A i \in DOMAIN m_override.v :
            LET k == m_override.v[i].key
                o == m_override.v[i].val
            IN  (IsPlainKey(k) /\ HasKey(m_base, k)) =>
                  /\ HasKey(m_result.val, k)
                  /\ LET b == GetKey(m_base, k)
                         r == GetKey(m_result.val, k)
                     IN  IF isinstance(b, "dict") /\ isinstance(o, "dict")
                         THEN /\ isinstance(r, "dict")
                              /\ \A kk \in KeysOf(b) \ NamedKeys(o) :
                                    HasKey(r, kk) /\ GetKey(r, kk) = GetKey(b, kk)
                         ELSE IF isinstance(b, "list") /\ isinstance(o, "list")
                         THEN r = List(b.v \o o.v)
                         ELSE r = o

\* C2: after merge(t, {"=k": v}) the result has key k equal to v, has no key
\* literally named "=k", and every other key of t is unchanged.
C2_ReplaceOperator ==
    (m_phase = "done" /\ IsSingleOp(m_override, "=")) =>
        LET k == Tail(m_override.v[1].key)
            v == m_override.v[1].val
        IN  /\ m_result.ok
            /\ HasKey(m_result.val, k)
            /\ GetKey(m_result.val, k) = v
            /\ ~HasKey(m_result.val, m_override.v[1].key)
            /\ KeysOf(m_result.val) = KeysOf(m_base) \cup {k}
            /\ \A kk \in KeysOf(m_base) \ {k} :
                  GetKey(m_result.val, kk) = GetKey(m_base, kk)

\* C3: merge(t, {"~k": null}) never raises; when k is absent from t the result
\* equals t; applying the same delete to the result gives the result again.
C3_DeleteIdempotent ==
    (m_phase = "done" /\ IsSingleOp(m_override, "~") /\ m_override.v[1].val = None) =>
        LET k == Tail(m_override.v[1].key)
        IN  /\ m_result.ok
            /\ ~HasKey(m_base, k) => m_result.val = m_base
            /\ merge_configs(m_result.val, m_override, FALSE) = m_result

\* C4: merge(base, {"~k": [i1, i2, ...]}) with base[k] a list and every index in
\* range keeps key k and removes exactly the elements at the listed indices,
\* negative indices counted from the end of the list as it was before the
\* operation, duplicate indices counting once.
C4_DeleteListIndices ==
    (/\ m_phase = "done"
     /\ IsSingleOp(m_override, "~")
     /\ isinstance(m_override.v[1].val, "list")
     /\ HasKey(m_base, Tail(m_override.v[1].key))
     /\ isinstance(GetKey(m_base, Tail(m_override.v[1].key)), "list")) =>
        LET k == Tail(m_override.v[1].key)
            b == GetKey(m_base, k)
            idx == m_override.v[1].val.v
            drop == {NormIndex(idx[j].v[1], Len(b.v)) : j \in DOMAIN idx}
        IN  (\A d \in drop : d >= 0 /\ d < Len(b.v)) =>
              /\ m_result.ok
              /\ HasKey(m_result.val, k)
              /\ GetKey(m_result.val, k) = List(DropIndices(b.v, 0, drop))

-----------------------------------------------------------------------------
(* config.py: identifiers *)

ID_SEP_KEY == "::"

ID_REF_KEY == "@"

MACRO_KEY == "%"

EXPR_KEY == "$"

MERGE_KEY == "+"

DELETE_KEY == "~"

\* `tok in s`
Contains(s, tok) == \E i \in DOMAIN s : s[i] = tok

RECURSIVE split_id(_)
\* str.split("::"): the segments of an id; "" splits into one empty segment
split_id(id) ==
    IF Contains(id, ID_SEP_KEY)
    THEN LET i == CHOOSE j \in DOMAIN id :
                    id[j] = ID_SEP_KEY /\ \A h \in 1..(j - 1) : id[h] # ID_SEP_KEY
         IN  <<SubSeq(id, 1, i - 1)>> \o split_id(SubSeq(id, i + 1, Len(id)))
    ELSE <<id>>

RECURSIVE join_id(_)
\* "::".join(segments)
join_id(segs) ==
    IF segs = <<>> THEN <<>>
    ELSE IF Len(segs) = 1 THEN segs[1]
    ELSE segs[1] \o <<ID_SEP_KEY>> \o join_id(Tail(segs))

\* f"{id}::{k}" if id else str(k)
sub_id_of(id, k) == IF id = <<>> THEN k ELSE id \o <<ID_SEP_KEY>> \o k

\* str(idx) for a list position idx (from 0)
IndexStr(idx) ==
    CASE idx = 0 -> <<"0">> [] idx = 1 -> <<"1">> [] idx = 2 -> <<"2">>
      [] idx = 3 -> <<"3">> [] idx = 4 -> <<"4">> [] OTHER -> <<"big">>

RECURSIVE lstrip(_, _)
\* str.lstrip(c)
lstrip(s, c) == IF startswith(s, c) THEN lstrip(Tail(s), c) ELSE s

\* whether int(seg) succeeds
IsIntStr(seg) == Len(seg) = 1 /\ seg[1] \in IntToks

\* the position (from 1) that list[int(seg)] addresses in a list of length n,
\* 0 when it raises IndexError
ListPos(seg, n) ==
    With(IntOf(seg[1]), LAMBDA i :
    With(IF i < 0 THEN n + i + 1 ELSE i + 1, LAMBDA pos :
        IF pos >= 1 /\ pos <= n THEN pos ELSE 0))

RECURSIVE get_walk(_, _, _)
\* the loop of _get_by_id from key i on
get_walk(config, keys, i) ==
    IF i > Len(keys) THEN Ok(config)
    ELSE IF ~isinstance(config, "dict") /\ ~isinstance(config, "list")
    THEN Raise("ValueError")
    ELSE IF isinstance(config, "dict")
    THEN IF HasKey(config, keys[i])
         THEN get_walk(GetKey(config, keys[i]), keys, i + 1)
         ELSE Raise("KeyError")
    ELSE IF ~IsIntStr(keys[i]) THEN Raise("KeyError")
    ELSE With(ListPos(keys[i], Len(config.v)), LAMBDA pos :
             IF pos = 0 THEN Raise("IndexError")
             ELSE get_walk(config.v[pos], keys, i + 1))

\* Config._get_by_id on the tree data
_get_by_id(data, id) ==
    IF id = <<>> THEN Ok(data) ELSE get_walk(data, split_id(id), 1)

\* Config.__contains__
contains(data, id) == _get_by_id(data, id).ok

RECURSIVE set_walk(_, _, _)
\* the path-creating loop and the final assignment of Config.set
set_walk(current, keys, value) ==
    IF Len(keys) = 1 THEN SetKey(current, keys[1], value)
    ELSE LET k == keys[1]
             child == IF HasKey(current, k) /\ isinstance(GetKey(current, k), "dict")
                      THEN GetKey(current, k)
                      ELSE Dict(<<>>)
         IN  SetKey(current, k, set_walk(child, Tail(keys), value))

\* the tree after Config.set(id, value)
set_data(data, id, value) ==
    IF id = <<>> THEN value
    ELSE set_walk(IF isinstance(data, "dict") THEN data ELSE Dict(<<>>),
                  split_id(id), value)

RECURSIVE replace_at(_, _, _)
\* the tree config after the object at path keys (which exists) is replaced by node
replace_at(config, keys, node) ==
    IF keys = <<>> THEN node
    ELSE IF isinstance(config, "dict")
    THEN SetKey(config, keys[1], replace_at(GetKey(config, keys[1]), Tail(keys), node))
    ELSE With(ListPos(keys[1], Len(config.v)), LAMBDA pos :
             List([j \in DOMAIN config.v |->
                     IF j = pos THEN replace_at(config.v[j], Tail(keys), node)
                     ELSE config.v[j]]))

\* the tree after replacing the object at id (which exists) by node
replace_id(data, id, node) ==
    IF id = <<>> THEN node ELSE replace_at(data, split_id(id), node)

\* Config.merge, `~key` branch (config.py:289-304): the tree after the delete
merge_delete(data, actual_key) ==
    IF Contains(actual_key, ID_SEP_KEY)
    THEN With(split_id(actual_key), LAMBDA keys :
         With(join_id(SubSeq(keys, 1, Len(keys) - 1)), LAMBDA parent_id :
         With(IF parent_id # <<>> THEN _get_by_id(data, parent_id).val ELSE data,
              LAMBDA parent :
             IF isinstance(parent, "dict") /\ HasKey(parent, keys[Len(keys)])
             THEN replace_id(data, parent_id, DelKey(parent, keys[Len(keys)]))
             ELSE data)))
    ELSE IF isinstance(data, "dict") /\ HasKey(data, actual_key)
         THEN DelKey(data, actual_key)
         ELSE data

\* the state a Config.merge call works on: the tree, whether
\* _invalidate_resolution has run, and the outcome
MergeState(data, invalidated, out) == [data |-> data, invalidated |-> invalidated, out |-> out]

RECURSIVE merge_paths(_, _, _, _)
\* Config.merge, key-value updates (config.py:279-310) from entry i on
merge_paths(data, invalidated, items, i) ==
    IF i > Len(items) THEN MergeState(data, invalidated, Ok(None))
    ELSE
      LET key == items[i].key
          value == items[i].val
          actual_key == Tail(key)
      IN
      IF startswith(key, MERGE_KEY) THEN
          IF /\ contains(data, actual_key)
             /\ isinstance(_get_by_id(data, actual_key).val, "dict")
             /\ isinstance(value, "dict")
          THEN With(merge_configs(_get_by_id(data, actual_key).val, value, FALSE),
                    LAMBDA merged :
                   IF ~merged.ok THEN MergeState(data, invalidated, merged)
                   ELSE merge_paths(set_data(data, actual_key, merged.val), TRUE, items, i + 1))
          ELSE merge_paths(set_data(data, actual_key, value), TRUE, items, i + 1)
      ELSE IF startswith(key, DELETE_KEY) THEN
          IF contains(data, actual_key)
          THEN merge_paths(merge_delete(data, actual_key), TRUE, items, i + 1)
          ELSE merge_paths(data, invalidated, items, i + 1)
      ELSE merge_paths(set_data(data, key, value), TRUE, items, i + 1)

\* Config.merge(source) for a dict source
config_merge(data, source) ==
    LET has_nested_paths ==
            \E i \in DOMAIN source.v :
                Contains(lstrip(lstrip(source.v[i].key, MERGE_KEY), DELETE_KEY), ID_SEP_KEY)
    IN  IF has_nested_paths
        THEN merge_paths(data, FALSE, source.v, 1)
        ELSE With(merge_configs(data, source, FALSE), LAMBDA merged :
                 IF merged.ok THEN MergeState(merged.val, TRUE, Ok(None))
                 ELSE MergeState(data, FALSE, merged))

-----------------------------------------------------------------------------
(* config.py: relative ids and macros *)

\* number of consecutive "::" tokens of s from position i on
RECURSIVE SepRun(_, _)
SepRun(s, i) == IF i <= Len(s) /\ s[i] = ID_SEP_KEY THEN 1 + SepRun(s, i + 1) ELSE 0

\* relative_id_prefix.findall(value): the matches of (?:@|%)(?:::)+ as
\* <<sigil, number of "::">>
relative_id_prefixes(value) ==
    {<<value[i], SepRun(value, i + 1)>> :
        i \in {j \in DOMAIN value : value[j] \in {ID_REF_KEY, MACRO_KEY} /\ SepRun(value, j + 1) > 0}}

\* the text of a prefix
PrefixText(p) == <<p[1]>> \o [j \in 1..p[2] |-> ID_SEP_KEY]

RECURSIVE SortedPrefixes(_, _, _)
\* sorted(prefixes, reverse=True): "@" sorts after "%", and a longer run after
\* a shorter one of the same sigil
SortedPrefixes(prefixes, sym, n) ==
    IF n = 0
    THEN IF sym = ID_REF_KEY
         THEN SortedPrefixes(prefixes, MACRO_KEY,
                             IF prefixes = {} THEN 0
                             ELSE CHOOSE m \in {p[2] : p \in prefixes} :
                                      \A p \in prefixes : p[2] <= m)
         ELSE <<>>
    ELSE (IF <<sym, n>> \in prefixes THEN << <<sym, n>> >> ELSE <<>>)
         \o SortedPrefixes(prefixes, sym, n - 1)

RECURSIVE str_replace(_, _, _)
\* str.replace(old, new, 1): the first occurrence only
str_replace_first(s, old, new) ==
    LET hits == {i \in 1..(Len(s) - Len(old) + 1) : SubSeq(s, i, i + Len(old) - 1) = old}
    IN  IF hits = {} THEN s
        ELSE LET i == CHOOSE j \in hits : \A h \in hits : j <= h
             IN  SubSeq(s, 1, i - 1) \o new \o SubSeq(s, i + Len(old), Len(s))

\* str.replace(old, new)
str_replace(s, old, new) ==
    IF Len(s) < Len(old) THEN s
    ELSE IF SubSeq(s, 1, Len(old)) = old
    THEN new \o str_replace(SubSeq(s, Len(old) + 1, Len(s)), old, new)
    ELSE <<Head(s)>> \o str_replace(Tail(s), old, new)

\* the exception of config.py:603-604
OutOfRange == Raise("ValueError: Relative ID is out of range of config content")

\* `length > len(current_id)` (config.py:603) with one more level allowed
out_of_range_lenient(current_id, length) == length > Len(current_id) + 1

\* `length > len(current_id)` (config.py:603)
out_of_range(current_id, length) == length > Len(current_id)

\* the absolute prefix that keeps one more segment of the current id
relative_base_keeping_last(current_id, length) ==
    join_id(SubSeq(current_id, 1, Len(current_id) - length + 1)) \o <<ID_SEP_KEY>>

\* the absolute prefix `new` that replaces a run of `length` separators
\* (config.py:606-609)
relative_base(current_id, length) ==
    IF length = Len(current_id) THEN <<>>
    ELSE join_id(SubSeq(current_id, 1, Len(current_id) - length)) \o <<ID_SEP_KEY>>

RECURSIVE relative_loop(_, _, _, _)
\* the loop `for p in prefixes` of resolve_relative_ids from prefix i on
relative_loop(current_id, value, prefixes, i) ==
    IF i > Len(prefixes) THEN Ok(value)
    ELSE LET sym == prefixes[i][1]
             length == prefixes[i][2]
         IN  IF out_of_range(current_id, length) THEN OutOfRange
             ELSE relative_loop(current_id,
                                str_replace(value, PrefixText(prefixes[i]),
                                            <<sym>> \o relative_base(current_id, length)),
                                prefixes, i + 1)

\* Config.resolve_relative_ids
resolve_relative_ids(id, value) ==
    LET found == relative_id_prefixes(value)
        longest == IF found = {} THEN 0
                   ELSE CHOOSE m \in {p[2] : p \in found} : \A p \in found : p[2] <= m
    IN  relative_loop(split_id(id), value, SortedPrefixes(found, ID_REF_KEY, longest), 1)

\* the tokens that name a YAML file
YamlToks == {"f.yaml"}

\* the files a macro can load (Loader.load_file), by path
Files ==
    (<<"f.yaml">> :> Dict(<<Ent(<<"ext">>, Dict(<<Ent(<<"v">>, Num("1"))>>))>>))

\* Config.split_path_id: (file path, id)
split_path_id(src) ==
    LET ends == {i \in DOMAIN src :
                    src[i] \in YamlToks /\ (i = Len(src) \/ src[i + 1] = ID_SEP_KEY)}
    IN  IF ends = {} THEN [path |-> <<>>, ids |-> src]
        ELSE LET i == CHOOSE j \in ends : \A h \in ends : h <= j
             IN  [path |-> SubSeq(src, 1, i), ids |-> SubSeq(src, i + 2, Len(src))]

\* the exception of config.py:447-451
CircularMacro == Raise("ValueError: Circular macro reference detected")

\* the state _do_resolve_macros works on: the tree of the Config it runs in
\* (rewritten in place), the outcome (the returned value or the exception) and
\* the set _macro_stack, which all the calls of one preprocessing run share
Pre(root, out, stack) == [root |-> root, out |-> out, stack |-> stack]

\* _macro_stack.discard(config) of the `finally` clause (config.py:471-472)
discard_kept(_macro_stack, config) == _macro_stack

discard(_macro_stack, config) == _macro_stack \ {config}

\* the depth of recursion at which the interpreter raises RecursionError
RecursionLimit == 8

\* the exception of a call deeper than the recursion limit
RecursionError == Raise("RecursionError")

\* a macro never found in the set of the macros being expanded
in_macro_stack_never(config, _macro_stack) == FALSE

\* `config in _macro_stack` (config.py:446)
in_macro_stack(config, _macro_stack) == config \in _macro_stack

RECURSIVE _do_resolve_macros(_, _, _, _)
RECURSIVE macro_children(_, _, _, _, _, _)

\* the loops over the children of the dict or list at id (config.py:430-437),
\* from child i on; subs are the ids of the children
macro_children(root, id, subs, i, _macro_stack, depth) ==
    IF i > Len(subs) THEN Pre(root, Ok(_get_by_id(root, id).val), _macro_stack)
    ELSE With(_do_resolve_macros(root, subs[i], _macro_stack, depth + 1), LAMBDA r :
             IF ~r.out.ok THEN r
             ELSE macro_children(replace_id(r.root, subs[i], r.out.val),
                                 id, subs, i + 1, r.stack, depth))

\* Config._do_resolve_macros(config, id, _macro_stack), config being the object
\* at id in the tree root; depth is the number of active calls
_do_resolve_macros(root, id, _macro_stack, depth) ==
    IF depth > RecursionLimit THEN Pre(root, RecursionError, _macro_stack)
    ELSE
    With(_get_by_id(root, id).val, LAMBDA config :
    IF isinstance(config, "dict")
    THEN macro_children(root, id,
                        [i \in DOMAIN config.v |-> sub_id_of(id, config.v[i].key)],
                        1, _macro_stack, depth)
    ELSE IF isinstance(config, "list")
    THEN macro_children(root, id,
                        [i \in DOMAIN config.v |-> sub_id_of(id, IndexStr(i - 1))],
                        1, _macro_stack, depth)
    ELSE IF isinstance(config, "str")
    THEN With(resolve_relative_ids(id, config.v), LAMBDA rel :
         IF ~rel.ok THEN Pre(root, rel, _macro_stack)
         ELSE IF ~startswith(rel.val, MACRO_KEY) THEN Pre(root, Ok(Str(rel.val)), _macro_stack)
         ELSE IF in_macro_stack(rel.val, _macro_stack) THEN Pre(root, CircularMacro, _macro_stack)
         ELSE With(split_path_id(Tail(rel.val)), LAMBDA sp :
              IF sp.path # <<>> /\ sp.path \notin DOMAIN Files
              THEN Pre(root, Raise("OSError"), discard(_macro_stack \cup {rel.val}, rel.val))
              ELSE With(IF sp.path = <<>> THEN root ELSE Files[sp.path],
                        LAMBDA loaded_config :
                   With(_get_by_id(loaded_config, sp.ids), LAMBDA target :
                   IF ~target.ok
                   THEN Pre(root, target, discard(_macro_stack \cup {rel.val}, rel.val))
                   ELSE With(_do_resolve_macros(loaded_config, sp.ids,
                                                _macro_stack \cup {rel.val}, depth + 1),
                             LAMBDA r :
                            Pre(IF sp.path = <<>> THEN r.root ELSE root,
                                IF r.out.ok THEN Ok(deepcopy(r.out.val)) ELSE r.out,
                                discard(r.stack, rel.val)))))))
    ELSE Pre(root, Ok(config), _macro_stack))

\* Config._resolve_macros_and_relative_ids: the tree afterwards, the outcome and
\* the _macro_stack the run leaves behind
_resolve_macros_and_relative_ids(data) ==
    With(_do_resolve_macros(data, <<>>, {}, 1), LAMBDA r :
        Pre(IF r.out.ok THEN r.out.val ELSE r.root, r.out, r.stack))

-----------------------------------------------------------------------------
(* Items: the classified nodes of the tree *)

\* the tokens that end an identifier inside a string
SigilToks == {"@", "$", "%", "+", "~", "="}

TARGET_KEY == <<"_target_">>

DISABLED_KEY == <<"_disabled_">>

REQUIRES_KEY == <<"_requires_">>

\* a mapping holding the reserved key _target_
is_instantiable(config) == isinstance(config, "dict") /\ HasKey(config, TARGET_KEY)

\* a string beginning with "$"
is_expression(config) == isinstance(config, "str") /\ startswith(config.v, EXPR_KEY)

IsContainer(config) == isinstance(config, "dict") \/ isinstance(config, "list")

\* the id of the i-th child of the container config at id
ChildId(config, id, i) ==
    IF isinstance(config, "dict") THEN sub_id_of(id, config.v[i].key)
    ELSE sub_id_of(id, IndexStr(i - 1))

\* the i-th child of the container config
ChildVal(config, i) ==
    IF isinstance(config, "dict") THEN config.v[i].val ELSE config.v[i]

RECURSIVE item_ids(_, _)
\* the ids _do_parse visits: the node itself and, for a container, every
\* sub config recursively
item_ids(config, id) ==
    {id} \cup (IF IsContainer(config)
               THEN UNION {item_ids(ChildVal(config, i), ChildId(config, id, i)) :
                           i \in DOMAIN config.v}
               ELSE {})

\* the component test left out of the classification
item_kind_no_component(config) ==
    IF is_expression(config) THEN "Expression" ELSE "Plain"

\* the class of item _do_parse adds for a node
item_kind(config) ==
    IF is_instantiable(config) THEN "Component"
    ELSE IF is_expression(config) THEN "Expression"
    ELSE "Plain"

\* the flat id -> item table built from the tree
_do_parse(config) ==
    [id \in item_ids(config, <<>>) |->
        LET node == _get_by_id(config, id).val
        IN  [kind |-> item_kind(node), config |-> node]]

-----------------------------------------------------------------------------
(* Resolver *)

\* append x unless it is already in seq (an insertion-ordered set)
AppendNew(seq, x) == IF Contains(seq, x) THEN seq ELSE Append(seq, x)

RECURSIVE AppendAll(_, _)
AppendAll(seq, xs) ==
    IF xs = <<>> THEN seq ELSE AppendAll(AppendNew(seq, Head(xs)), Tail(xs))

RECURSIVE IdRun(_, _)
\* the longest identifier that starts at position i of the string s
IdRun(s, i) ==
    IF i <= Len(s) /\ s[i] \notin SigilToks THEN <<s[i]>> \o IdRun(s, i + 1) ELSE <<>>

RECURSIVE scan_refs(_, _)
\* the ids of the "@" tokens of s from position i on, in order of appearance
scan_refs(s, i) ==
    IF i > Len(s) THEN <<>>
    ELSE IF s[i] = ID_REF_KEY THEN <<IdRun(s, i + 1)>> \o scan_refs(s, i + 1)
    ELSE scan_refs(s, i + 1)

\* a string that is one reference "@ID" and nothing else
IsWholeRef(s) == startswith(s, ID_REF_KEY) /\ Len(IdRun(s, 2)) = Len(s) - 1

\* the references of expressions only: a string that is one reference is
\* not seen as a reference
match_refs_pattern_expr_only(s) ==
    IF startswith(s, EXPR_KEY) THEN AppendAll(<<>>, scan_refs(s, 1)) ELSE <<>>

\* the references of a string: every "@ID" of an expression, or the string
\* itself when it is exactly one reference
match_refs_pattern(s) ==
    IF startswith(s, EXPR_KEY) THEN AppendAll(<<>>, scan_refs(s, 1))
    ELSE IF IsWholeRef(s) THEN <<IdRun(s, 2)>>
    ELSE <<>>

RECURSIVE find_refs_in_config(_, _, _), find_refs_children(_, _, _, _)
\* the ids the config at id depends on, in discovery order: the references of
\* its strings and its expression and component children, at any depth
find_refs_in_config(config, id, refs) ==
    IF isinstance(config, "str") THEN AppendAll(refs, match_refs_pattern(config.v))
    ELSE IF ~IsContainer(config) THEN refs
    ELSE find_refs_children(config, id, refs, 1)

find_refs_children(config, id, refs, i) ==
    IF i > Len(config.v) THEN refs
    ELSE LET v == ChildVal(config, i)
             sub == ChildId(config, id, i)
             r1 == IF is_instantiable(v) \/ is_expression(v)
                   THEN AppendNew(refs, sub) ELSE refs
         IN  find_refs_children(config, id, find_refs_in_config(v, sub, r1), i + 1)

find_references(config, id) == find_refs_in_config(config, id, <<>>)

\* a string after substitution: "@X" alone becomes resolved[X]; an
\* expression keeps its text (its references are looked up at evaluation)
update_refs_pattern(s, resolved) ==
    IF ~startswith(s, EXPR_KEY) /\ IsWholeRef(s) /\ IdRun(s, 2) \in DOMAIN resolved
    THEN resolved[IdRun(s, 2)]
    ELSE Str(s)

RECURSIVE substitute(_, _, _), substitute_children(_, _, _, _)
\* the config at id with its references replaced by their resolved values
substitute(config, id, resolved) ==
    IF isinstance(config, "str") THEN update_refs_pattern(config.v, resolved)
    ELSE IF ~IsContainer(config) THEN config
    ELSE [k |-> config.k, v |-> substitute_children(config, id, resolved, 1)]

\* the rebuilt children from position i on: an expression or component child
\* is its resolved value, and a component child that resolved to null is dropped
substitute_children(config, id, resolved, i) ==
    IF i > Len(config.v) THEN <<>>
    ELSE LET v == ChildVal(config, i)
             sub == ChildId(config, id, i)
             rest == substitute_children(config, id, resolved, i + 1)
             updated == IF is_instantiable(v) \/ is_expression(v)
                        THEN resolved[sub]
                        ELSE substitute(v, sub, resolved)
         IN  IF is_instantiable(v) /\ resolved[sub] = None THEN rest
             ELSE IF isinstance(config, "dict")
                  THEN <<Ent(config.v[i].key, updated)>> \o rest
                  ELSE <<updated>> \o rest

\* the object a component's target returns when called with the config's arguments
Inst(config) == [k |-> "inst", v |-> <<config>>]

\* a Component item returned as is (instantiate = false)
ItemOf(config) == [k |-> "item", v |-> <<config>>]

\* the value the expression host computes from the source and the values of
\* its references
Eval(src, refvals) == [k |-> "eval", v |-> <<Str(src), List(refvals)>>]

\* _disabled_ truthy: true, or the string "true"
is_disabled(config) ==
    /\ HasKey(config, DISABLED_KEY)
    /\ GetKey(config, DISABLED_KEY) \in {True, Str(<<"true">>)}

\* expression_host.evaluate: an expression that holds the token "boom" fails
evaluate(src, resolved) ==
    IF Contains(src, "boom") THEN Raise("EvaluationError")
    ELSE Ok(Eval(src, [i \in DOMAIN match_refs_pattern(src) |->
                          resolved[match_refs_pattern(src)[i]]]))

\* symbol_loader.invoke: the target "bad" fails
instantiate(config) ==
    IF GetKey(config, TARGET_KEY) = Str(<<"bad">>) THEN Raise("InstantiationError")
    ELSE Ok(Inst(config))

\* the options of one resolve call
Opts(inst, eval_expr) == [instantiate |-> inst, eval_expr |-> eval_expr]

\* step 4 of resolve_one: the value of an item from its substituted config
produce_value(item, substituted, resolved, opts) ==
    IF item.kind = "Expression"
    THEN IF opts.eval_expr THEN evaluate(item.config.v, resolved) ELSE Ok(item.config)
    ELSE IF item.kind = "Component"
    THEN IF is_disabled(substituted) THEN Ok(None)
         ELSE IF ~opts.instantiate THEN Ok(ItemOf(substituted))
         ELSE instantiate(substituted)
    ELSE Ok(substituted)

\* whether producing the value calls the expression host or the symbol loader
calls_host(item, substituted, opts) ==
    \/ item.kind = "Expression" /\ opts.eval_expr
    \/ item.kind = "Component" /\ ~is_disabled(substituted) /\ opts.instantiate

\* the ids of the _requires_ entries of a component
requires_ids(item, id) ==
    IF item.kind = "Component" /\ HasKey(item.config, REQUIRES_KEY)
       /\ isinstance(GetKey(item.config, REQUIRES_KEY), "list")
    THEN [i \in DOMAIN GetKey(item.config, REQUIRES_KEY).v |->
             sub_id_of(sub_id_of(id, REQUIRES_KEY), IndexStr(i - 1))]
    ELSE <<>>

\* the ids from the first insertion of id to its re-entry
CircularChain(in_progress, id) ==
    LET first == CHOOSE i \in DOMAIN in_progress : in_progress[i] = id
    IN  SubSeq(in_progress, first, Len(in_progress)) \o <<id>>

\* in_progress without id
Discard(in_progress, id) ==
    LET keep == {i \in DOMAIN in_progress : in_progress[i] # id}
        F[i \in 0..Len(in_progress)] ==
            IF i = 0 THEN <<>>
            ELSE IF i \in keep THEN Append(F[i - 1], in_progress[i]) ELSE F[i - 1]
    IN  F[Len(in_progress)]

\* the resolver: items, memo, ids being resolved, and what the last call
\* returned or raised; evals and writes log the host calls and the memo writes
ResolverState(items, resolved, in_progress) ==
    [items |-> items, resolved |-> resolved, in_progress |-> in_progress,
     out |-> NotRun, chain |-> <<>>, maxdepth |-> 0, evals |-> <<>>, writes |-> <<>>]

RECURSIVE resolve_one(_, _, _, _), resolve_refs(_, _, _, _, _)
\* resolve_one(id): R is the resolver before the call, depth the number of
\* active calls
resolve_one(R, id, opts, depth) ==
    IF id \in DOMAIN R.resolved THEN [R EXCEPT !.out = Ok(R.resolved[id])]
    ELSE IF Contains(R.in_progress, id)
    THEN [R EXCEPT !.out = Raise("CircularReference"),
                   !.chain = CircularChain(R.in_progress, id)]
    ELSE IF id \notin DOMAIN R.items THEN [R EXCEPT !.out = Raise("KeyNotFound")]
    ELSE With(R.items[id], LAMBDA item :
         With(resolve_refs([R EXCEPT !.in_progress = Append(@, id),
                                     !.maxdepth = IF depth > @ THEN depth ELSE @],
                           find_references(item.config, id), 1, opts, depth + 1),
              LAMBDA R2 :
         With(IF R2.out.ok
              THEN resolve_refs(R2, requires_ids(item, id), 1, opts, depth + 1)
              ELSE R2,
              LAMBDA R3 :
         IF ~R3.out.ok THEN R3
         ELSE With(substitute(item.config, id, R3.resolved), LAMBDA substituted :
              With(produce_value(item, substituted, R3.resolved, opts), LAMBDA value :
              With(IF calls_host(item, substituted, opts)
                   THEN [R3 EXCEPT !.evals = Append(@, id)] ELSE R3,
                   LAMBDA R4 :
              IF ~value.ok THEN [R4 EXCEPT !.out = value]
              ELSE [R4 EXCEPT !.resolved = (id :> value.val) @@ @,
                              !.writes = Append(@, id),
                              !.in_progress = Discard(@, id),
                              !.out = value]))))))

\* for r in refs: resolve_one(r), stopping at the first error
resolve_refs(R, refs, i, opts, depth) ==
    IF i > Len(refs) THEN [R EXCEPT !.out = Ok(None)]
    ELSE With(resolve_one(R, refs[i], opts, depth), LAMBDA R1 :
             IF ~R1.out.ok THEN R1 ELSE resolve_refs(R1, refs, i + 1, opts, depth))

\* Resolver.reset
reset(R) == ResolverState(<<>>, <<>>, <<>>)

\* Resolver.resolve(id, instantiate, eval_expr) from the resolver state R
resolver_resolve(R, id, opts) ==
    resolve_one([R EXCEPT !.out = NotRun, !.chain = <<>>, !.maxdepth = 0,
                          !.evals = <<>>, !.writes = <<>>], id, opts, 1)

-----------------------------------------------------------------------------
(* config.py: the Config facade over the tree and its resolver *)

\* a Config: its tree, its parsed flag and its resolver; out is what the
\* last call returned or raised, parsed whether that call ran _parse
ConfigState(data, is_parsed, resolver) ==
    [data |-> data, is_parsed |-> is_parsed, resolver |-> resolver,
     out |-> NotRun, parsed |-> FALSE]

\* set/merge returning without invalidating
_invalidate_resolution_skipped(C) == C

\* Config._invalidate_resolution
_invalidate_resolution(C) ==
    [C EXCEPT !.is_parsed = FALSE, !.resolver = reset(C.resolver)]

\* Config.set(id, value)
config_set(C, id, value) ==
    _invalidate_resolution([C EXCEPT !.data = set_data(C.data, id, value),
                                     !.out = Ok(None), !.parsed = FALSE])

\* Config.merge(source) for a dict source
config_merge_call(C, source) ==
    With(config_merge(C.data, source), LAMBDA m :
    With([C EXCEPT !.data = m.data, !.out = m.out, !.parsed = FALSE], LAMBDA C1 :
        IF m.invalidated THEN _invalidate_resolution(C1) ELSE C1))

\* Config._parse: reset the resolver, rewrite macros and relative ids in the
\* tree, classify the tree into items
_parse(C) ==
    With(_resolve_macros_and_relative_ids(C.data), LAMBDA pre :
        IF ~pre.out.ok
        THEN [C EXCEPT !.resolver = reset(C.resolver), !.data = pre.root, !.out = pre.out]
        ELSE [C EXCEPT !.resolver = ResolverState(_do_parse(pre.root), <<>>, <<>>),
                       !.data = pre.root, !.is_parsed = TRUE, !.out = Ok(None)])

\* parsing on every call
needs_parse_always(is_parsed, lazy) == TRUE

\* parsing only while not parsed, whatever lazy is
needs_parse_once(is_parsed, lazy) == ~is_parsed

\* the condition under which Config.resolve parses
needs_parse(is_parsed, lazy) == ~is_parsed \/ ~lazy

\* catching every exception, not only the key errors
resolve_result_any(out, default) ==
    IF ~out.ok /\ default # None THEN Ok(default) ELSE out

\* what Config.resolve returns given what the resolver returned or raised
resolve_result(out, default) ==
    IF ~out.ok /\ out.err = "KeyNotFound" /\ default # None THEN Ok(default) ELSE out

\* Config.resolve(id, instantiate, eval_expr, lazy, default)
config_resolve(C, id, opts, lazy, default) ==
    With(needs_parse(C.is_parsed, lazy), LAMBDA parse :
    With(IF parse THEN _parse(C) ELSE [C EXCEPT !.out = Ok(None)], LAMBDA C1 :
        IF ~C1.out.ok
        THEN [C1 EXCEPT !.parsed = parse,
                        !.resolver = [C1.resolver EXCEPT !.out = NotRun]]
        ELSE With(resolver_resolve(C1.resolver, id, opts), LAMBDA R :
                 [C1 EXCEPT !.resolver = R, !.parsed = parse,
                            !.out = resolve_result(R.out, default)])))

\* Config(data): `data or {}`, not parsed, a new resolver
config_init(data) ==
    ConfigState(IF data \in {None, Dict(<<>>), List(<<>>), Str(<<>>)} THEN Dict(<<>>) ELSE data,
                FALSE, ResolverState(<<>>, <<>>, <<>>))

-----------------------------------------------------------------------------
(* Specification of a Config under set, merge and resolve calls *)

\* number of calls made on one Config
MaxOps == 3

\* a component: a mapping whose first key is _target_
Comp(target, entries) == Dict(<<Ent(TARGET_KEY, Str(<<target>>))>> \o entries)

\* references, an expression over two references
TreeRefs ==
    Dict(<<Ent(K("a"), Num("1")), Ent(K("b"), Str(<<"@", "a">>)),
           Ent(K("c"), Str(<<"$", "@", "a", "+", "@", "b">>))>>)

\* a cycle a -> b -> a, and a list that meets a missing id before the cycle
TreeCycle ==
    Dict(<<Ent(K("a"), Str(<<"@", "b">>)), Ent(K("b"), Str(<<"@", "a">>)),
           Ent(K("c"), List(<<Str(<<"@", "zz">>), Str(<<"@", "a">>)>>))>>)

\* enabled and disabled components inside a mapping, a list and a component
TreeComponents ==
    Dict(<<Ent(K("c"), Dict(<<Ent(K("e"), Comp("t", <<Ent(K("x"), Str(<<"@", "b">>)),
                                                      Ent(K("y"), Comp("t", <<Ent(DISABLED_KEY, True)>>))>>)),
                              Ent(K("d"), Comp("t", <<Ent(DISABLED_KEY, True)>>)),
                              Ent(K("q"), Num("1"))>>)),
           Ent(K("a"), List(<<Comp("t", <<Ent(DISABLED_KEY, Str(<<"true">>))>>),
                              Comp("t", <<>>), Num("3")>>)),
           Ent(K("b"), Num("2"))>>)

\* one template inlined at two sites, with a relative reference inside
TreeMacros ==
    Dict(<<Ent(K("c"), Dict(<<Ent(K("x"), Num("1")),
                              Ent(K("r"), Str(<<"@", "::", "x">>))>>)),
           Ent(K("a"), Str(<<"%", "c">>)), Ent(K("b"), Str(<<"%", "c">>))>>)

\* a cycle through a list, behind an expression and a component that fail
TreeFailing ==
    Dict(<<Ent(K("a"), Str(<<"@", "b">>)), Ent(K("b"), List(<<Str(<<"@", "a">>)>>)),
           Ent(K("c"), List(<<Str(<<"$", "boom">>), Comp("bad", <<>>),
                              Str(<<"@", "a">>)>>))>>)

ConfigTrees == {TreeRefs, TreeCycle, TreeComponents, TreeMacros, TreeFailing}

\* the ids resolve is called with: the root, three keys, an absent key
ResolveIds == {<<>>, K("a"), K("b"), K("c"), K("zz")}

\* (instantiate, eval_expr, lazy, default) of a resolve call
ResolveArgs ==
    {[opts |-> Opts(TRUE, TRUE), lazy |-> TRUE, dflt |-> None],
     [opts |-> Opts(TRUE, TRUE), lazy |-> FALSE, dflt |-> None],
     [opts |-> Opts(FALSE, FALSE), lazy |-> TRUE, dflt |-> None],
     [opts |-> Opts(TRUE, FALSE), lazy |-> TRUE, dflt |-> None],
     [opts |-> Opts(TRUE, TRUE), lazy |-> TRUE, dflt |-> Num("9")]}

\* (id, value) of a set call
SetArgs ==
    {[id |-> K("a"), value |-> Num("5")],
     [id |-> K("b"), value |-> Str(<<"@", "c">>)],
     [id |-> K("zz"), value |-> Num("1")]}

\* the dict of a merge call: a plain key, a delete, a nested path, a failing "+"
MergeArgs ==
    {Dict(<<Ent(K("a"), Num("7"))>>),
     Dict(<<Ent(Op("~", "b"), None)>>),
     Dict(<<Ent(<<"c", "::", "q">>, Num("2"))>>),
     Dict(<<Ent(Op("+", "zz"), Dict(<<Ent(K("x"), Num("1"))>>))>>)}

\* the record of one call
Call(op, id, value, args, C0, C1, mut, clean, last) ==
    [op |-> op, id |-> id, value |-> value,
     opts |-> args.opts, lazy |-> args.lazy, dflt |-> args.dflt,
     out |-> C1.out, rout |-> C1.resolver.out, chain |-> C1.resolver.chain,
     maxdepth |-> C1.resolver.maxdepth, parsed |-> C1.parsed,
     was_parsed |-> C0.is_parsed, pre_data |-> C0.data,
     pre_resolved |-> C0.resolver.resolved,
     pre_in_progress |-> C0.resolver.in_progress,
     mut_before |-> mut, clean_before |-> clean,
     prev |-> last.op, prev_ok |-> last.out.ok,
     prev_changed |-> last.changed,
     stale |-> IF id \in DOMAIN last.pre_resolved
               THEN Ok(last.pre_resolved[id]) ELSE NotRun,
     changed |-> C1.data # C0.data]

NoArgs == [opts |-> Opts(TRUE, TRUE), lazy |-> TRUE, dflt |-> None]

\* the Config held in the variables
TheConfig ==
    [ConfigState(c_data, c_is_parsed, ResolverState(r_items, r_resolved, r_in_progress))
        EXCEPT !.out = c_last.out]

\* the variables take the Config C
Becomes(C) ==
    /\ c_data' = C.data
    /\ c_is_parsed' = C.is_parsed
    /\ r_items' = C.resolver.items
    /\ r_resolved' = C.resolver.resolved
    /\ r_in_progress' = C.resolver.in_progress

\* config = Config(tree)
Init ==
    /\ MergeIdle
    /\ HeapIdle
    /\ AuxIdle
    /\ \E tree \in ConfigTrees :
          LET C == config_init(tree)
          IN  /\ c_data = C.data
              /\ c_is_parsed = C.is_parsed
              /\ r_items = C.resolver.items
              /\ r_resolved = C.resolver.resolved
              /\ r_in_progress = C.resolver.in_progress
    /\ c_last = [Call("load", <<>>, None, NoArgs, config_init(None), config_init(None),
                      TRUE, FALSE, [op |-> "none", out |-> Ok(None), changed |-> FALSE,
                                    pre_resolved |-> <<>>])
                   EXCEPT !.out = Ok(None)]
    /\ g_evals = <<>>
    /\ g_writes = <<>>
    /\ g_mut = TRUE
    /\ g_clean = FALSE
    /\ c_nops = 0

\* config.set(id, value)
Set ==
    /\ c_nops < MaxOps
    /\ \E a \in SetArgs :
          \E C \in {config_set(TheConfig, a.id, a.value)} :
              /\ Becomes(C)
              /\ c_last' = Call("set", a.id, a.value, NoArgs, TheConfig, C, g_mut, g_clean, c_last)
    /\ g_evals' = <<>>
    /\ g_writes' = <<>>
    /\ g_mut' = TRUE
    /\ g_clean' = FALSE
    /\ c_nops' = c_nops + 1
    /\ UNCHANGED <<mergeVars, heapVars, auxVars>>

\* config.merge(source)
Merge ==
    /\ c_nops < MaxOps
    /\ \E source \in MergeArgs :
          \E C \in {config_merge_call(TheConfig, source)} :
              /\ Becomes(C)
              /\ c_last' = Call("merge", <<>>, source, NoArgs, TheConfig, C, g_mut, g_clean, c_last)
              /\ g_mut' = (g_mut \/ C.out.ok)
    /\ g_evals' = <<>>
    /\ g_writes' = <<>>
    /\ g_clean' = FALSE
    /\ c_nops' = c_nops + 1
    /\ UNCHANGED <<mergeVars, heapVars, auxVars>>

\* config.resolve(id, instantiate, eval_expr, lazy, default)
Resolve ==
    /\ c_nops < MaxOps
    /\ \E id \in ResolveIds, a \in ResolveArgs :
          \E C \in {config_resolve(TheConfig, id, a.opts, a.lazy, a.dflt)} :
          LET parse_done == C.parsed /\ C.is_parsed /\ C.resolver.out # NotRun
          IN  /\ Becomes(C)
              /\ c_last' = Call("resolve", id, None, a, TheConfig, C, g_mut, g_clean, c_last)
              /\ g_evals' = (IF a.lazy THEN g_evals ELSE <<>>) \o C.resolver.evals
              /\ g_writes' = (IF a.lazy THEN g_writes ELSE <<>>) \o C.resolver.writes
              /\ g_mut' = (g_mut /\ ~parse_done)
              /\ g_clean' = (g_clean \/ parse_done)
    /\ c_nops' = c_nops + 1
    /\ UNCHANGED <<mergeVars, heapVars, auxVars>>

Next == Set \/ Merge \/ Resolve

Spec == Init /\ [][Next]_vars

-----------------------------------------------------------------------------
(* Properties of the Config *)

\* number of occurrences of x in seq
Count(seq, x) == Cardinality({i \in DOMAIN seq : seq[i] = x})

\* what resolve returns on a Config newly built over tree
FreshResolve(tree, id, opts, lazy, dflt) ==
    config_resolve(ConfigState(tree, FALSE, ResolverState(<<>>, <<>>, <<>>)),
                   id, opts, lazy, dflt).out

\* the previous call was a set or merge that returned or changed the tree
AfterMutation ==
    /\ c_last.op = "resolve"
    /\ c_last.prev \in {"set", "merge"}
    /\ (c_last.prev_ok \/ c_last.prev_changed)

C6_Memoization ==
    /\ \A i \in DOMAIN g_writes :
          Count(g_writes, g_writes[i]) = 1 /\ Count(g_evals, g_writes[i]) <= 1
    /\ (c_last.op = "resolve" /\ c_last.lazy /\ c_last.clean_before)
          => /\ \A id \in DOMAIN c_last.pre_resolved :
                    id \in DOMAIN r_resolved /\ r_resolved[id] = c_last.pre_resolved[id]
             /\ c_last.id \in DOMAIN c_last.pre_resolved
                    => c_last.out = Ok(c_last.pre_resolved[c_last.id])

\* a second lazy resolve of an id whose expression or component was run
C6_Witness ==
    /\ c_last.op = "resolve" /\ c_last.lazy /\ c_last.clean_before
    /\ c_last.id \in DOMAIN c_last.pre_resolved
    /\ Count(g_evals, c_last.id) = 1

\* the ids the node at id of tree depends on
DepsOf(tree, id) ==
    IF contains(tree, id)
    THEN LET refs == find_references(_get_by_id(tree, id).val, id)
         IN  {refs[i] : i \in DOMAIN refs}
    ELSE {}

RECURSIVE ReachFrom(_, _)
\* the ids reachable from the ids of S along dependencies
ReachFrom(tree, S) ==
    LET S2 == S \cup UNION {DepsOf(tree, x) : x \in S}
    IN  IF S2 = S THEN S ELSE ReachFrom(tree, S2)

\* id reaches a dependency cycle of two ids or more
ReachesCycle(tree, id) ==
    \E x \in ReachFrom(tree, {id}) :
        \E y \in DepsOf(tree, x) \ {x} : x \in ReachFrom(tree, {y})

\* the resolver ran on an id that reaches a cycle
ResolvedIntoCycle ==
    /\ c_last.op = "resolve"
    /\ c_last.rout # NotRun
    /\ ReachesCycle(c_data, c_last.id)

\* the chain of the last CircularReference starts and ends with the
\* re-entered id and names items only
ChainClosed ==
    /\ Len(c_last.chain) >= 2
    /\ c_last.chain[1] = c_last.chain[Len(c_last.chain)]
    /\ \A i \in DOMAIN c_last.chain : c_last.chain[i] \in DOMAIN r_items

\* each id of the chain depends on the next one
ChainFollowsDeps ==
    /\ Len(c_last.chain) >= 3
    /\ \A i \in 1..(Len(c_last.chain) - 1) :
          c_last.chain[i + 1] \in DepsOf(c_data, c_last.chain[i])

\* the call started with no id in progress
StartedClean == c_last.parsed \/ c_last.pre_in_progress = <<>>

ReachesMissing ==
    \E x \in ReachFrom(c_data, {c_last.id}) : ~contains(c_data, x)

\* a reachable expression that fails to evaluate
ReachesFailingExpression ==
    \E x \in ReachFrom(c_data, {c_last.id}) :
        /\ contains(c_data, x)
        /\ is_expression(_get_by_id(c_data, x).val)
        /\ c_last.opts.eval_expr
        /\ Contains(_get_by_id(c_data, x).val.v, "boom")

\* a reachable component that fails to instantiate
ReachesFailingComponent ==
    \E x \in ReachFrom(c_data, {c_last.id}) :
        /\ contains(c_data, x)
        /\ is_instantiable(_get_by_id(c_data, x).val)
        /\ c_last.opts.instantiate
        /\ GetKey(_get_by_id(c_data, x).val, TARGET_KEY) = Str(<<"bad">>)

C8_ParseIffNeeded ==
    /\ c_last.op = "resolve"
          => /\ c_last.parsed <=> (~c_last.was_parsed \/ ~c_last.lazy)
             /\ c_last.mut_before => c_last.parsed
             /\ (c_last.lazy /\ c_last.clean_before) => ~c_last.parsed
             /\ ~c_last.lazy => c_last.parsed
             /\ (c_last.parsed /\ c_is_parsed) => r_items = _do_parse(c_data)
    /\ c_last.op \in {"set", "merge"} => ~c_last.parsed

\* a resolve with lazy false parsed again a Config that was parsed
C8_Witness ==
    /\ c_last.op = "resolve"
    /\ ~c_last.lazy
    /\ c_last.was_parsed
    /\ c_last.parsed
    /\ c_is_parsed

\* the positions of the children of node (at id) that are components
\* resolved to null
DroppedChildren(node, id) ==
    {i \in DOMAIN node.v :
        /\ is_instantiable(ChildVal(node, i))
        /\ r_resolved[ChildId(node, id, i)] = None}

\* the resolved container res of node (at id) lacks exactly the dropped children
DropsDisabled(node, id, res) ==
    /\ res.k = node.k
    /\ Len(res.v) = Len(node.v) - Cardinality(DroppedChildren(node, id))
    /\ \A i \in DOMAIN node.v :
          LET child == ChildVal(node, i)
              sub == ChildId(node, id, i)
          IN  /\ is_instantiable(child)
                    => /\ sub \in DOMAIN r_resolved
                       /\ is_disabled(child) => i \in DroppedChildren(node, id)
                       /\ ~HasKey(child, DISABLED_KEY) => i \notin DroppedChildren(node, id)
              /\ isinstance(node, "dict")
                    => (HasKey(res, node.v[i].key) <=> i \notin DroppedChildren(node, id))
              /\ (isinstance(node, "dict") /\ is_instantiable(child)
                  /\ i \notin DroppedChildren(node, id))
                    => GetKey(res, node.v[i].key) = r_resolved[sub]
              /\ (isinstance(node, "list") /\ is_instantiable(child)
                  /\ i \notin DroppedChildren(node, id))
                    => \E j \in DOMAIN res.v : res.v[j] = r_resolved[sub]

\* C9: the resolved value of every mapping or list, and the arguments of every
\* resolved component, hold no entry for a component child that is disabled
\* and resolved to null, and hold every other child
C9_DisabledDropped ==
    \A id \in DOMAIN r_resolved :
        LET node == r_items[id].config
            res == r_resolved[id]
        IN  /\ (IsContainer(node) /\ ~is_instantiable(node))
                  => DropsDisabled(node, id, res)
            /\ (is_instantiable(node) /\ res.k \in {"inst", "item"})
                  => DropsDisabled(node, id, res.v[1])

\* a mapping and a list were resolved without their disabled components and
\* with their enabled ones
C9_Witness ==
    /\ c_last.op = "resolve"
    /\ c_last.out.ok
    /\ c_last.id = <<>>
    /\ K("c") \in DOMAIN r_resolved
    /\ r_items[K("c")].config.k = "dict"
    /\ r_resolved[K("c")].k = "dict"
    /\ ~HasKey(r_resolved[K("c")], K("d"))
    /\ HasKey(r_resolved[K("c")], K("e"))
    /\ HasKey(r_items[K("c")].config, K("d"))
    /\ K("a") \in DOMAIN r_resolved
    /\ r_items[K("a")].config.k = "list"
    /\ r_resolved[K("a")].k = "list"
    /\ Len(r_resolved[K("a")].v) = 2
    /\ Len(r_items[K("a")].config.v) = 3

-----------------------------------------------------------------------------
(* The tree as Python objects: dicts and lists live in a heap and are held  *)
(* by reference; strings, numbers, booleans and None are immutable values   *)

\* a reference to the object at addr
Ref(addr) == [k |-> "ref", v |-> <<addr>>]

IsRef(x) == x.k = "ref"

AddrOf(x) == x.v[1]

\* a heap and a value or outcome over it
Heaped(heap, out) == [heap |-> heap, out |-> out]

RECURSIVE store(_, _), store_children(_, _, _)
\* build the value tree node as new objects of the heap H: out is the
\* reference to the new object, or node itself when it is a scalar
store(H, node) ==
    IF ~IsContainer(node) THEN Heaped(H, node)
    ELSE With(store_children(H, node, 1), LAMBDA r :
             Heaped(Append(r.heap,
                           [k |-> node.k,
                            v |-> [i \in DOMAIN node.v |->
                                     IF isinstance(node, "dict")
                                     THEN Ent(node.v[i].key, r.out[i]) ELSE r.out[i]]]),
                    Ref(Len(r.heap) + 1)))

\* the children of node from position i on, built in the heap
store_children(H, node, i) ==
    IF i > Len(node.v) THEN Heaped(H, <<>>)
    ELSE With(store(H, ChildVal(node, i)), LAMBDA c :
         With(store_children(c.heap, node, i + 1), LAMBDA rest :
             Heaped(rest.heap, <<c.out>> \o rest.out)))

RECURSIVE fetch(_, _)
\* the value tree that x stands for in the heap H
fetch(H, x) ==
    IF ~IsRef(x) THEN x
    ELSE LET obj == H[AddrOf(x)]
         IN  [k |-> obj.k,
              v |-> [i \in DOMAIN obj.v |->
                       IF obj.k = "dict" THEN Ent(obj.v[i].key, fetch(H, obj.v[i].val))
                       ELSE fetch(H, obj.v[i])]]

RECURSIVE HeapReach(_, _)
\* the addresses of the objects reachable from x
HeapReach(H, x) ==
    IF ~IsRef(x) THEN {}
    ELSE LET obj == H[AddrOf(x)]
         IN  {AddrOf(x)} \cup
             UNION {HeapReach(H, IF obj.k = "dict" THEN obj.v[i].val ELSE obj.v[i]) :
                    i \in DOMAIN obj.v}

\* returning the object itself instead of a copy
heap_alias(H, x) == Heaped(H, x)

\* copy.deepcopy(x): new objects for every dict and list reachable from x
\* (a tree here: no object is reachable from x along two paths)
heap_deepcopy(H, x) == store(H, fetch(H, x))

RECURSIVE heap_get_walk(_, _, _, _)
\* the loop of _get_by_id over objects, from key i on
heap_get_walk(H, config, keys, i) ==
    IF i > Len(keys) THEN Ok(config)
    ELSE IF ~IsRef(config) THEN Raise("ValueError")
    ELSE LET obj == H[AddrOf(config)]
         IN  IF obj.k = "dict"
             THEN IF HasKey(obj, keys[i])
                  THEN heap_get_walk(H, GetKey(obj, keys[i]), keys, i + 1)
                  ELSE Raise("KeyError")
             ELSE IF ~IsIntStr(keys[i]) THEN Raise("KeyError")
             ELSE With(ListPos(keys[i], Len(obj.v)), LAMBDA pos :
                      IF pos = 0 THEN Raise("IndexError")
                      ELSE heap_get_walk(H, obj.v[pos], keys, i + 1))

\* Config._get_by_id over objects: the object (or scalar) at id, not a copy
heap_get_by_id(H, data, id) ==
    IF id = <<>> THEN Ok(data) ELSE heap_get_walk(H, data, split_id(id), 1)

\* config[k] = val for the i-th key or index of the object at addr
heap_assign(H, addr, i, val) ==
    [H EXCEPT ![addr].v[i] =
        IF H[addr].k = "dict" THEN Ent(H[addr].v[i].key, val) ELSE val]

RECURSIVE heap_do_resolve_macros(_, _, _, _, _)
RECURSIVE heap_macro_children(_, _, _, _, _, _)

\* the loops of _do_resolve_macros over the keys or indices of the object at
\* addr, from position i on: each child is replaced in place by its result
heap_macro_children(H, data, addr, id, i, _macro_stack) ==
    IF i > Len(H[addr].v) THEN Heaped(H, Ok(Ref(addr)))
    ELSE LET obj == H[addr]
             child == IF obj.k = "dict" THEN obj.v[i].val ELSE obj.v[i]
             sub == IF obj.k = "dict" THEN sub_id_of(id, obj.v[i].key)
                    ELSE sub_id_of(id, IndexStr(i - 1))
         IN  With(heap_do_resolve_macros(H, data, child, sub, _macro_stack), LAMBDA r :
             IF ~r.out.ok THEN r
             ELSE heap_macro_children(heap_assign(r.heap, addr, i, r.out.val),
                                      data, addr, id, i + 1, _macro_stack))

\* Config._do_resolve_macros(config, id, _macro_stack) of the Config whose
\* _data is data, over objects
heap_do_resolve_macros(H, data, config, id, _macro_stack) ==
    IF IsRef(config) THEN heap_macro_children(H, data, AddrOf(config), id, 1, _macro_stack)
    ELSE IF isinstance(config, "str")
    THEN With(resolve_relative_ids(id, config.v), LAMBDA rel :
         IF ~rel.ok THEN Heaped(H, rel)
         ELSE IF ~startswith(rel.val, MACRO_KEY) THEN Heaped(H, Ok(Str(rel.val)))
         ELSE IF rel.val \in _macro_stack THEN Heaped(H, CircularMacro)
         ELSE With(split_path_id(Tail(rel.val)), LAMBDA sp :
              IF sp.path # <<>> /\ sp.path \notin DOMAIN Files
              THEN Heaped(H, Raise("OSError"))
              ELSE With(IF sp.path = <<>> THEN Heaped(H, data)
                        ELSE store(H, Files[sp.path]),
                        LAMBDA loaded :
                   With(heap_get_by_id(loaded.heap, loaded.out, sp.ids), LAMBDA target :
                   IF ~target.ok THEN Heaped(loaded.heap, target)
                   ELSE With(heap_do_resolve_macros(loaded.heap, loaded.out, target.val,
                                                    sp.ids, _macro_stack \cup {rel.val}),
                             LAMBDA r :
                        IF ~r.out.ok THEN r
                        ELSE With(heap_deepcopy(r.heap, r.out.val), LAMBDA copy :
                                 Heaped(copy.heap, Ok(copy.out))))))))
    ELSE Heaped(H, Ok(config))

\* Config._resolve_macros_and_relative_ids over objects: the heap and the
\* new _data, or the exception
heap_resolve_macros(H, data) == heap_do_resolve_macros(H, data, data, <<>>, {})

-----------------------------------------------------------------------------
(* Specification of macro expansion over objects, followed by in-place     *)
(* assignments to the expanded tree (config["copy"]["a"] = 99)              *)

\* number of in-place assignments after the expansion
MaxAssigns == 2

\* a template with a nested mapping, inlined at two sites
MacroTwice ==
    Dict(<<Ent(K("t"), Dict(<<Ent(K("a"), Num("1")),
                              Ent(K("b"), Dict(<<Ent(K("z"), Num("2"))>>))>>)),
           Ent(K("x"), Str(<<"%", "t">>)), Ent(K("y"), Str(<<"%", "t">>))>>)

\* a template that itself inlines another one
MacroChained ==
    Dict(<<Ent(K("t"), Dict(<<Ent(K("a"), Num("1")), Ent(K("u"), Str(<<"%", "w">>))>>)),
           Ent(K("w"), Dict(<<Ent(K("q"), NumList(<<"1", "2">>))>>)),
           Ent(K("x"), Str(<<"%", "t">>))>>)

\* a file macro at two sites
MacroFile ==
    Dict(<<Ent(K("x"), Str(<<"%", "f.yaml", "::", "ext">>)),
           Ent(K("y"), Str(<<"%", "f.yaml", "::", "ext">>)),
           Ent(K("p"), Dict(<<Ent(K("n"), Num("1"))>>))>>)

\* sites inside a list, one of them inlining a part of the other's source
MacroInList ==
    Dict(<<Ent(K("l"), List(<<Str(<<"%", "t">>), Str(<<"%", "t", "::", "b">>)>>)),
           Ent(K("t"), Dict(<<Ent(K("a"), Num("1")),
                              Ent(K("b"), Dict(<<Ent(K("z"), Num("2"))>>))>>))>>)

\* a macro that targets its own ancestor
MacroCircular ==
    Dict(<<Ent(K("a"), Dict(<<Ent(K("b"), Str(<<"%", "a">>))>>))>>)

MacroTrees == {MacroTwice, MacroChained, MacroFile, MacroInList, MacroCircular}

\* whether the node at id is a string that, once its relative ids are
\* resolved, begins with "%"
IsMacroSite(tree, id) ==
    With(_get_by_id(tree, id).val, LAMBDA node :
        /\ isinstance(node, "str")
        /\ With(resolve_relative_ids(id, node.v), LAMBDA rel :
                rel.ok /\ startswith(rel.val, MACRO_KEY)))

\* a macro site: its id, whether the macro is local, and the id of its source
MacroSite(tree, id) ==
    With(split_path_id(Tail(resolve_relative_ids(id, _get_by_id(tree, id).val.v).val)),
         LAMBDA sp : [site |-> id, local |-> sp.path = <<>>, source |-> sp.ids])

\* the macro sites of a tree
MacroSites(tree) ==
    {MacroSite(tree, id) : id \in {j \in item_ids(tree, <<>>) : IsMacroSite(tree, j)}}

\* the record of an in-place assignment container[key] = value, the
\* container being the object at id
Assign(id, key, value) == [id |-> id, key |-> key, value |-> value]

\* config = Config(tree); the tree is made of new objects
HeapInit ==
    /\ MergeIdle
    /\ ConfigIdle
    /\ AuxIdle
    /\ \E tree \in MacroTrees :
          /\ \E stored \in {store(<<>>, tree)} :
                /\ h_heap = stored.heap
                /\ h_data = stored.out
          /\ h_sites = MacroSites(tree)
          /\ h_before = tree
    /\ h_phase = "loaded"
    /\ h_mut = Assign(<<>>, <<>>, None)
    /\ h_nmut = 0

\* config._parse(), as far as the macros and relative ids
HeapParse ==
    /\ h_phase = "loaded"
    /\ \E r \in {heap_resolve_macros(h_heap, h_data)} :
           /\ h_heap' = r.heap
           /\ h_data' = IF r.out.ok THEN r.out.val ELSE h_data
           /\ h_phase' = IF r.out.ok THEN "parsed" ELSE "failed"
           /\ h_before' = fetch(r.heap, IF r.out.ok THEN r.out.val ELSE h_data)
    /\ UNCHANGED <<h_sites, h_mut, h_nmut>>
    /\ UNCHANGED <<mergeVars, configVars, auxVars>>

\* the ids of the dicts and lists of the tree
ContainerIds(tree) ==
    {id \in item_ids(tree, <<>>) : IsContainer(_get_by_id(tree, id).val)}

\* the keys an assignment to the container node may use: its keys and a new
\* one for a dict, its indices for a list
AssignKeys(node) ==
    IF isinstance(node, "dict") THEN KeysOf(node) \cup {K("n")}
    ELSE {IndexStr(i - 1) : i \in DOMAIN node.v}

\* obj[key] = value on the object at addr
heap_setitem(H, addr, key, value) ==
    IF H[addr].k = "dict"
    THEN IF HasKey(H[addr], key)
         THEN heap_assign(H, addr, CHOOSE i \in DOMAIN H[addr].v : H[addr].v[i].key = key, value)
         ELSE [H EXCEPT ![addr].v = Append(@, Ent(key, value))]
    ELSE heap_assign(H, addr, ListPos(key, Len(H[addr].v)), value)

\* config[id][key] = 99: __getitem__ returns the object at id, which the
\* caller assigns into
HeapAssign ==
    /\ h_phase \in {"parsed", "mutated"}
    /\ h_nmut < MaxAssigns
    /\ \E id \in ContainerIds(fetch(h_heap, h_data)) :
          \E key \in AssignKeys(_get_by_id(fetch(h_heap, h_data), id).val) :
              /\ h_heap' = heap_setitem(h_heap, AddrOf(heap_get_by_id(h_heap, h_data, id).val),
                                        key, Num("99"))
              /\ h_mut' = Assign(id, key, Num("99"))
    /\ h_before' = fetch(h_heap, h_data)
    /\ h_phase' = "mutated"
    /\ h_nmut' = h_nmut + 1
    /\ UNCHANGED <<h_data, h_sites>>
    /\ UNCHANGED <<mergeVars, configVars, auxVars>>

HeapNext == HeapParse \/ HeapAssign

SpecMacro == HeapInit /\ [][HeapNext]_vars

\* the addresses reachable from the node at id, none when id is absent
ReachAt(id) ==
    IF heap_get_by_id(h_heap, h_data, id).ok
    THEN HeapReach(h_heap, heap_get_by_id(h_heap, h_data, id).val)
    ELSE {}

\* the tree t after container[key] = value on the container at id
AfterAssign(t, mut) ==
    LET node == _get_by_id(t, mut.id).val
    IN  replace_id(t, mut.id,
                   IF isinstance(node, "dict") THEN SetKey(node, mut.key, mut.value)
                   ELSE List([i \in DOMAIN node.v |->
                                IF i = ListPos(mut.key, Len(node.v)) THEN mut.value
                                ELSE node.v[i]]))

\* C10: after macro expansion no object is reachable both from a macro site
\* and from its source, or from two macro sites; and an in-place assignment
\* changes the tree at the assigned key only, so the source of a macro, its
\* expansion and the other expansions never change together
C10_MacroCopiesIndependent ==
    h_phase \in {"parsed", "mutated"}
       => /\ \A s \in h_sites : \A s2 \in h_sites \ {s} :
                 ReachAt(s.site) \cap ReachAt(s2.site) = {}
          /\ \A s \in h_sites :
                 s.local => ReachAt(s.site) \cap ReachAt(s.source) = {}
          /\ h_phase = "mutated"
                 => fetch(h_heap, h_data) = AfterAssign(h_before, h_mut)

\* an assignment into the expansion at a site of a local macro changed the
\* expansion and left the source as it was
C10_Witness ==
    /\ h_phase = "mutated"
    /\ \E s \in h_sites :
          /\ s.local
          /\ h_mut.id = s.site
          /\ _get_by_id(h_before, s.site).val = _get_by_id(h_before, s.source).val
          /\ heap_get_by_id(h_heap, h_data, s.source).ok
          /\ fetch(h_heap, heap_get_by_id(h_heap, h_data, s.source).val)
                = _get_by_id(h_before, s.source).val
          /\ fetch(h_heap, heap_get_by_id(h_heap, h_data, s.site).val)
                # _get_by_id(h_before, s.source).val

-----------------------------------------------------------------------------
(* Specification of one preprocessing run over a loaded tree *)

\* the values of the keys a and b of a loaded tree: macros naming each other,
\* themselves, a shared target, a file and a missing key; relative references
\* and macros, in range and out of range; containers holding macros
PreValues ==
    {Str(<<"%", "a">>), Str(<<"%", "b">>), Str(<<"%", "t">>),
     Str(<<"@", "::", "t">>), Str(<<"%", "::", "t">>), Str(<<"%", "::", "::", "t">>),
     Str(<<"$", "@", "::", "t", "+", "@", "::", "t">>),
     Str(<<"%", "zz">>), Str(<<"%", "f.yaml", "::", "ext">>),
     Dict(<<Ent(K("c"), Str(<<"%", "t">>))>>),
     Dict(<<Ent(K("c"), Str(<<"%", "::", "::", "b">>))>>),
     Dict(<<Ent(K("c"), Str(<<"@", "::", "::", "::", "t">>))>>),
     List(<<Str(<<"%", "t">>), Str(<<"%", "t">>)>>),
     Num("1")}

\* the values of the key t, the shared target
PreTargets ==
    {Num("1"), Dict(<<Ent(K("v"), Num("1"))>>), Str(<<"%", "a">>), Str(<<"@", "::", "a">>)}

\* the loaded trees {a: .., b: .., t: ..}
PreTrees ==
    {Dict(<<Ent(K("a"), va), Ent(K("b"), vb), Ent(K("t"), vt)>>) :
        va \in PreValues, vb \in PreValues, vt \in PreTargets}

\* config = Config(tree), not yet parsed
PreInit ==
    /\ MergeIdle
    /\ ConfigIdle
    /\ HeapIdle
    /\ RelIdle
    /\ HeapMergeIdle
    /\ LoadIdle
    /\ OwnIdle
    /\ DiffIdle
    /\ p_data \in PreTrees
    /\ p_loaded = p_data
    /\ p_out = NotRun
    /\ p_stack = {}
    /\ p_phase = "loaded"

\* config._resolve_macros_and_relative_ids(), the first step of _parse
PreParse ==
    /\ p_phase = "loaded"
    /\ \E r \in {_resolve_macros_and_relative_ids(p_data)} :
          /\ p_data' = r.root
          /\ p_out' = r.out
          /\ p_stack' = r.stack
    /\ p_phase' = "done"
    /\ UNCHANGED p_loaded
    /\ UNCHANGED <<mergeVars, configVars, heapVars, relVars, heapMergeVars, loadVars, ownVars, diffVars>>

PreNext == PreParse

SpecPre == PreInit /\ [][PreNext]_vars

\* the macro tokens written in the subtree at id of tree: the strings that,
\* once their relative prefixes are made absolute, begin with "%"
MacroTokens(tree, id) ==
    UNION {With(_get_by_id(tree, j).val, LAMBDA n :
               IF ~isinstance(n, "str") THEN {}
               ELSE With(resolve_relative_ids(j, n.v), LAMBDA rel :
                        IF rel.ok /\ startswith(rel.val, MACRO_KEY)
                        THEN {rel.val} ELSE {})) :
           j \in item_ids(_get_by_id(tree, id).val, id)}

\* the macro tokens written in the target of the token tok (the files hold none)
MacroDeps(tree, tok) ==
    With(split_path_id(Tail(tok)), LAMBDA sp :
        IF sp.path = <<>> /\ _get_by_id(tree, sp.ids).ok
        THEN MacroTokens(tree, sp.ids) ELSE {})

RECURSIVE MacroReach(_, _, _)
\* the tokens reached from the tokens toks in at most n further steps
MacroReach(tree, toks, n) ==
    IF n = 0 THEN toks
    ELSE MacroReach(tree, toks \cup UNION {MacroDeps(tree, t) : t \in toks}, n - 1)

\* some macro token of the tree is written, directly or through other macros,
\* in its own target: expanding it meets it again before its expansion ends
HasMacroCycle(tree) ==
    \E tok \in MacroTokens(tree, <<>>) :
        tok \in MacroReach(tree, MacroDeps(tree, tok),
                           Cardinality(MacroTokens(tree, <<>>)))

\* some string of the tree fails for another reason: a relative prefix out of
\* range, a macro naming a missing file or a missing id
FailsOtherwise(tree) ==
    \E j \in item_ids(tree, <<>>) :
        With(_get_by_id(tree, j).val, LAMBDA n :
            /\ isinstance(n, "str")
            /\ With(resolve_relative_ids(j, n.v), LAMBDA rel :
                   \/ ~rel.ok
                   \/ /\ startswith(rel.val, MACRO_KEY)
                      /\ With(split_path_id(Tail(rel.val)), LAMBDA sp :
                             IF sp.path = <<>> THEN ~_get_by_id(tree, sp.ids).ok
                             ELSE \/ sp.path \notin DOMAIN Files
                                  \/ ~_get_by_id(Files[sp.path], sp.ids).ok)))

\* C11: preprocessing raises the circular-macro error only for a tree in which
\* a macro token is met again while it is being expanded, every such tree fails
\* (with the circular-macro error unless another error is met), a token used
\* at several sites without depending on itself never raises it, and the
\* expanding set is empty again when the run has finished or failed
C11_CircularMacroExactly ==
    p_phase = "done"
       => /\ p_out = CircularMacro => HasMacroCycle(p_loaded)
          /\ HasMacroCycle(p_loaded) => ~p_out.ok
          /\ HasMacroCycle(p_loaded) /\ ~FailsOtherwise(p_loaded) => p_out = CircularMacro
          /\ p_stack = {}

\* the run over {a: "%b", b: "%a", ..} raised the circular-macro error
C11_Witness ==
    /\ p_phase = "done"
    /\ p_out = CircularMacro
    /\ _get_by_id(p_loaded, K("a")).val = Str(<<"%", "b">>)
    /\ _get_by_id(p_loaded, K("b")).val = Str(<<"%", "a">>)

\* the strings of the tree at or under id
StringsOf(tree) ==
    {_get_by_id(tree, j).val.v :
        j \in {i \in item_ids(tree, <<>>) : isinstance(_get_by_id(tree, i).val, "str")}}

\* C12: when preprocessing completes without error, no string of the resulting
\* tree begins with "%" and none holds a relative prefix ("@" or "%" followed
\* by "::")
C12_NoMacroNoRelative ==
    p_phase = "done" /\ p_out.ok
       => \A s \in StringsOf(p_data) :
              ~startswith(s, MACRO_KEY) /\ relative_id_prefixes(s) = {}

\* a completed run over a tree that held a macro and a relative reference,
\* which left an absolute reference behind
C12_Witness ==
    /\ p_phase = "done" /\ p_out.ok
    /\ \E s \in StringsOf(p_loaded) : startswith(s, MACRO_KEY)
    /\ \E s \in StringsOf(p_loaded) : relative_id_prefixes(s) # {}
    /\ Str(<<"@", "t">>) \in {_get_by_id(p_data, j).val : j \in {K("a"), K("b")}}

-----------------------------------------------------------------------------
(* Specification of one call of resolve_relative_ids *)

\* length of the strings passed as `value`
MaxLen == 4

\* the tokens of the strings passed as `value`
RelToks == {ID_REF_KEY, MACRO_KEY, ID_SEP_KEY, "x"}

\* the strings passed as `value`, the two of the examples and one holding
\* two prefixes
RelValues ==
    UNION {[1..n -> RelToks] : n \in 1..MaxLen}
       \cup {<<"@", "::", "sibling">>, <<"@", "::", "sib">>, <<"@", "::", "::", "%", "::">>}

\* the ids passed as `id`: the root and ids of one to three segments
RelIds ==
    {<<>>, K("a"), <<"a", "::", "b">>, <<"a", "::", "b", "::", "c">>,
     <<"parent", "::", "child">>, <<"parent", "::", "child", "::", "ref">>}

RelInit ==
    /\ MergeIdle
    /\ ConfigIdle
    /\ HeapIdle
    /\ PreIdle
    /\ HeapMergeIdle
    /\ LoadIdle
    /\ OwnIdle
    /\ DiffIdle
    /\ rr_id \in RelIds
    /\ rr_value \in RelValues
    /\ rr_out = NotRun
    /\ rr_phase = "input"

\* Config.resolve_relative_ids(id, value)
RelResolve ==
    /\ rr_phase = "input"
    /\ rr_out' = resolve_relative_ids(rr_id, rr_value)
    /\ rr_phase' = "done"
    /\ UNCHANGED <<rr_id, rr_value>>
    /\ UNCHANGED <<mergeVars, configVars, heapVars, preVars, heapMergeVars, loadVars, ownVars, diffVars>>

RelNext == RelResolve

SpecRel == RelInit /\ [][RelNext]_vars

\* the segments of an id, none for the root id
Segments(id) == IF id = <<>> THEN <<>> ELSE split_id(id)

RECURSIVE Rewritten(_, _, _)
\* value from position i on, read from left to right, each sigil followed by n
\* separators replaced by the sigil and the absolute id of the first
\* depth - n segments of segs, with a trailing "::" when that id is not empty
Rewritten(segs, value, i) ==
    IF i > Len(value) THEN <<>>
    ELSE IF value[i] \in {ID_REF_KEY, MACRO_KEY} /\ SepRun(value, i + 1) > 0
    THEN LET n == SepRun(value, i + 1)
             kept == SubSeq(segs, 1, Len(segs) - n)
         IN  <<value[i]>> \o (IF kept = <<>> THEN <<>> ELSE join_id(kept) \o <<ID_SEP_KEY>>)
                \o Rewritten(segs, value, i + n + 1)
    ELSE <<value[i]>> \o Rewritten(segs, value, i + 1)

\* the tree of the example
RelExample ==
    Dict(<<Ent(K("parent"),
               Dict(<<Ent(K("child"),
                          Dict(<<Ent(K("sib"), Num("1")),
                                 Ent(K("ref"), Str(<<"@", "::", "sib">>))>>))>>))>>)

\* C13: for an id i other than the root and a value whose prefixes have at
\* most depth(i) separators, resolve_relative_ids replaces each prefix of n
\* separators by its sigil and the absolute id of the first depth(i) - n
\* segments of i (with a trailing "::" when not empty); ("parent::child",
\* "@::sibling") gives "@parent::sibling", and resolving parent::child::ref in
\* {parent: {child: {sib: 1, ref: "@::sib"}}} gives 1
C13_RelativeRewriting ==
    rr_phase = "done"
       => /\ rr_id # <<>> /\ (\A p \in relative_id_prefixes(rr_value) :
                                   p[2] <= Len(Segments(rr_id)))
                => rr_out = Ok(Rewritten(Segments(rr_id), rr_value, 1))
          /\ rr_id = <<"parent", "::", "child">> /\ rr_value = <<"@", "::", "sibling">>
                => rr_out = Ok(<<"@", "parent", "::", "sibling">>)
          /\ rr_id = <<"parent", "::", "child", "::", "ref">> /\ rr_value = <<"@", "::", "sib">>
                => /\ rr_out = Ok(_get_by_id(_parse(config_init(RelExample)).data, rr_id).val.v)
                   /\ config_resolve(config_init(RelExample), rr_id,
                                     Opts(TRUE, TRUE), TRUE, None).out = Ok(Num("1"))

\* a call that rewrote a prefix addressing the root (n = depth) and one
\* addressing a sibling (n = 1)
C13_Witness ==
    /\ rr_phase = "done"
    /\ rr_id = <<"a", "::", "b">>
    /\ rr_value = <<"@", "::", "::", "%", "::">>
    /\ rr_out = Ok(<<"@", "%", "a", "::">>)

\* the depth of an id as the claim counts it: the number of segments, 0 for the root
ClaimDepth(id) == Len(Segments(id))

\* C14 as stated: the call raises if and only if some prefix has more than
\* depth(i) + 1 separators
C14_RaisesBeyondDepthPlusOne ==
    rr_phase = "done"
       => (~rr_out.ok <=> \E p \in relative_id_prefixes(rr_value) :
                               p[2] > ClaimDepth(rr_id) + 1)

\* C14 (amended): the call raises if and only if some prefix has more
\* separators than the id has segments, the root id counting as one (empty)
\* segment; in every other case it returns a string without relative prefixes
C14_RaisesBeyondDepth ==
    rr_phase = "done"
       => /\ ~rr_out.ok <=> \E p \in relative_id_prefixes(rr_value) :
                                 p[2] > Len(split_id(rr_id))
          /\ rr_out.ok => relative_id_prefixes(rr_out.val) = {}

\* the call of the test: ("a", "@::::x") raised, with two separators at depth one
C14_Witness ==
    /\ rr_phase = "done"
    /\ rr_id = K("a")
    /\ rr_value = <<"@", "::", "::", "x">>
    /\ rr_out = OutOfRange

-----------------------------------------------------------------------------
(* Specification of a Config under set, get and `in` calls *)

\* number of calls made on one Config
MaxCalls == 2

False == [k |-> "bool", v |-> <<"false">>]

\* Config.get(id, default); default is None when the caller passes none
config_get(data, id, default) ==
    With(_get_by_id(data, id), LAMBDA r : IF r.ok THEN r ELSE Ok(default))

\* the loaded trees: a list under a key, nested mappings, a list of mappings
AccessTrees ==
    {Dict(<<Ent(K("items"), NumList(<<"1", "2", "3">>)), Ent(K("a"), Num("1"))>>),
     Dict(<<Ent(K("a"), Dict(<<Ent(K("b"), Num("1")), Ent(K("c"), Num("2"))>>)),
            Ent(K("d"), Num("3"))>>),
     Dict(<<Ent(K("items"), List(<<Dict(<<Ent(K("n"), Num("1"))>>), Num("2")>>))>>)}

\* the ids of the calls: keys, list elements, nested and absent paths
AccessIds ==
    {K("a"), <<"a", "::", "b">>, <<"a", "::", "x", "::", "y">>, K("zz"),
     <<"items", "::", "1">>, <<"items", "::", "4">>, <<"items", "::", "0", "::", "n">>}

\* the values written by set
AccessValues == {Num("4"), Dict(<<Ent(K("x"), Num("1"))>>)}

\* the defaults passed to get: none, and a value
AccessDefaults == {None, Num("0")}

\* config = Config(tree)
AccessInit ==
    /\ MergeIdle
    /\ HeapIdle
    /\ AuxIdle
    /\ \E tree \in AccessTrees :
          LET C == config_init(tree)
          IN  /\ c_data = C.data
              /\ c_is_parsed = C.is_parsed
              /\ r_items = C.resolver.items
              /\ r_resolved = C.resolver.resolved
              /\ r_in_progress = C.resolver.in_progress
    /\ c_last = [Call("load", <<>>, None, NoArgs, config_init(None), config_init(None),
                      TRUE, FALSE, [op |-> "none", out |-> Ok(None), changed |-> FALSE,
                                    pre_resolved |-> <<>>])
                   EXCEPT !.out = Ok(None)]
    /\ g_evals = <<>>
    /\ g_writes = <<>>
    /\ g_mut = TRUE
    /\ g_clean = FALSE
    /\ c_nops = 0

\* config.set(id, value), or config[id] = value
AccessSet ==
    /\ c_nops < MaxCalls
    /\ \E id \in AccessIds, value \in AccessValues :
          \E C \in {config_set(TheConfig, id, value)} :
              /\ Becomes(C)
              /\ c_last' = Call("set", id, value, NoArgs, TheConfig, C, g_mut, g_clean, c_last)
    /\ g_evals' = <<>>
    /\ g_writes' = <<>>
    /\ g_mut' = TRUE
    /\ g_clean' = FALSE
    /\ c_nops' = c_nops + 1
    /\ UNCHANGED <<mergeVars, heapVars, auxVars>>

\* config.get(id, default)
AccessGet ==
    /\ c_nops < MaxCalls
    /\ \E id \in AccessIds, default \in AccessDefaults :
          \E C \in {[TheConfig EXCEPT !.out = config_get(c_data, id, default)]} :
              c_last' = Call("get", id, default, NoArgs, TheConfig, C, g_mut, g_clean, c_last)
    /\ c_nops' = c_nops + 1
    /\ UNCHANGED <<c_data, c_is_parsed, r_items, r_resolved, r_in_progress>>
    /\ UNCHANGED <<g_evals, g_writes, g_mut, g_clean>>
    /\ UNCHANGED <<mergeVars, heapVars, auxVars>>

\* id in config
AccessContains ==
    /\ c_nops < MaxCalls
    /\ \E id \in AccessIds :
          \E C \in {[TheConfig EXCEPT
                        !.out = Ok(IF contains(c_data, id) THEN True ELSE False)]} :
              c_last' = Call("contains", id, None, NoArgs, TheConfig, C, g_mut, g_clean, c_last)
    /\ c_nops' = c_nops + 1
    /\ UNCHANGED <<c_data, c_is_parsed, r_items, r_resolved, r_in_progress>>
    /\ UNCHANGED <<g_evals, g_writes, g_mut, g_clean>>
    /\ UNCHANGED <<mergeVars, heapVars, auxVars>>

AccessNext == AccessSet \/ AccessGet \/ AccessContains

SpecAccess == AccessInit /\ [][AccessNext]_vars

\* the id i is the id j, one of its ancestors or one of its descendants
RelatedIds(i, j) ==
    LET si == Segments(i)
        sj == Segments(j)
    IN  IF Len(si) <= Len(sj) THEN SubSeq(sj, 1, Len(si)) = si
        ELSE SubSeq(si, 1, Len(sj)) = sj

\* the id of the parent of the node at a non-empty id
ParentId(id) == join_id(SubSeq(Segments(id), 1, Len(Segments(id)) - 1))

\* C15: after set(id, v) with a non-empty id, get(id) returns v, id is in the
\* Config, every node whose id is neither id, an ancestor of id nor a
\* descendant of id is as before, and when id addressed an element of a list
\* the container is still a list
C15_SetFrame ==
    c_last.op = "set" /\ c_last.id # <<>>
       => /\ config_get(c_data, c_last.id, None) = Ok(c_last.value)
          /\ contains(c_data, c_last.id)
          /\ \A j \in item_ids(c_last.pre_data, <<>>) \cup item_ids(c_data, <<>>) :
                 ~RelatedIds(j, c_last.id)
                    => _get_by_id(c_data, j) = _get_by_id(c_last.pre_data, j)
          /\ /\ contains(c_last.pre_data, c_last.id)
             /\ isinstance(_get_by_id(c_last.pre_data, ParentId(c_last.id)).val, "list")
                => isinstance(_get_by_id(c_data, ParentId(c_last.id)).val, "list")

\* C16: get on an id absent from the tree raises KeyNotFound when no default
\* is passed and returns the default when one is passed; `id in config` is
\* true exactly when the lookup of id succeeds
C16_GetAbsentRaises ==
    /\ c_last.op = "get" /\ ~_get_by_id(c_last.pre_data, c_last.id).ok
          => c_last.out = (IF c_last.value = None THEN Raise("KeyNotFound")
                           ELSE Ok(c_last.value))
    /\ c_last.op = "contains"
          => (c_last.out = Ok(True) <=> _get_by_id(c_last.pre_data, c_last.id).ok)

-----------------------------------------------------------------------------
(* merge_configs over Python objects *)

\* the type of the value x: of the object it refers to, or of the scalar
heap_kind(H, x) == IF IsRef(x) THEN H[AddrOf(x)].k ELSE x.k

\* result[key] = val for the dict object at addr
heap_setkey(H, addr, key, val) == [H EXCEPT ![addr] = SetKey(H[addr], key, val)]

RECURSIVE heap_merge_configs(_, _, _, _)
RECURSIVE heap_merge_loop(_, _, _, _, _)

\* the body of `for key, value in override.items()` (merge.py:94-155) from
\* entry i on; res is the address of the dict `result`
heap_merge_loop(H, res, items, i, _in_merge_context) ==
    IF i > Len(items) THEN Heaped(H, Ok(Ref(res)))
    ELSE
      With(items[i].key, LAMBDA key :
      With(items[i].val, LAMBDA value :
      IF startswith(key, "~") THEN
          IF ~HasKey(H[res], Tail(key)) THEN Heaped(H, Raise("ConfigMergeError"))
          ELSE heap_merge_loop([H EXCEPT ![res] = DelKey(H[res], Tail(key))],
                               res, items, i + 1, _in_merge_context)
      ELSE IF startswith(key, "+") THEN
          IF ~HasKey(H[res], Tail(key)) THEN Heaped(H, Raise("ConfigMergeError"))
          ELSE
            With(GetKey(H[res], Tail(key)), LAMBDA cur :
            IF heap_kind(H, cur) = "dict" /\ heap_kind(H, value) = "dict" THEN
                With(heap_merge_configs(H, cur, value, TRUE), LAMBDA r :
                    IF ~r.out.ok THEN r
                    ELSE heap_merge_loop(heap_setkey(r.heap, res, Tail(key), r.out.val),
                                         res, items, i + 1, _in_merge_context))
            ELSE IF heap_kind(H, cur) = "list" /\ heap_kind(H, value) = "list" THEN
                \* result[actual_key] + value: a new list holding the same elements
                heap_merge_loop(
                    heap_setkey(Append(H, List(H[AddrOf(cur)].v \o H[AddrOf(value)].v)),
                                res, Tail(key), Ref(Len(H) + 1)),
                    res, items, i + 1, _in_merge_context)
            ELSE Heaped(H, Raise("ConfigMergeError")))
      ELSE
          IF /\ _in_merge_context \/ _has_merge_directive(fetch(H, value))
             /\ HasKey(H[res], key)
             /\ heap_kind(H, GetKey(H[res], key)) = "dict"
             /\ heap_kind(H, value) = "dict"
          THEN
              With(heap_merge_configs(H, GetKey(H[res], key), value, TRUE), LAMBDA r :
                  IF ~r.out.ok THEN r
                  ELSE heap_merge_loop(heap_setkey(r.heap, res, key, r.out.val),
                                       res, items, i + 1, _in_merge_context))
          ELSE With(heap_deepcopy(H, value), LAMBDA c :
                   heap_merge_loop(heap_setkey(c.heap, res, key, c.out),
                                   res, items, i + 1, _in_merge_context))))

\* merge_configs(base, override, _in_merge_context) over the heap H
heap_merge_configs(H, base, override, _in_merge_context) ==
    IF heap_kind(H, base) # "dict" \/ heap_kind(H, override) # "dict"
    THEN With(heap_deepcopy(H, override), LAMBDA c : Heaped(c.heap, Ok(c.out)))
    ELSE With(heap_deepcopy(H, base), LAMBDA c :
             heap_merge_loop(c.heap, AddrOf(c.out), H[AddrOf(override)].v, 1,
                             _in_merge_context))

-----------------------------------------------------------------------------
(* Specification of one merge_configs call over objects, and of in-place    *)
(* assignments into its result                                              *)

\* number of in-place assignments made into the result
MaxMutations == 1

\* the base arguments: mappings holding a list of mappings, nested mappings,
\* a list and a mapping, nothing
HeapMergeBases ==
    {Dict(<<Ent(K("l"), List(<<Dict(<<Ent(K("x"), Num("1"))>>)>>)), Ent(K("a"), Num("1"))>>),
     Dict(<<Ent(K("m"), Dict(<<Ent(K("n"), Dict(<<Ent(K("x"), Num("1"))>>))>>))>>),
     Dict(<<Ent(K("l"), List(<<Num("1"), List(<<Num("2")>>)>>)),
            Ent(K("m"), Dict(<<Ent(K("k"), Num("1"))>>))>>),
     Dict(<<>>)}

\* the override arguments: a list appended, a mapping merged and replaced, a
\* key installed, a key deleted
HeapMergeOverrides ==
    {Dict(<<Ent(Op("+", "l"), List(<<Dict(<<Ent(K("y"), Num("2"))>>)>>))>>),
     Dict(<<Ent(Op("+", "m"), Dict(<<Ent(K("k"), Dict(<<Ent(K("y"), Num("2"))>>))>>))>>),
     Dict(<<Ent(K("m"), Dict(<<Ent(K("k"), List(<<Num("2")>>))>>))>>),
     Dict(<<Ent(K("l"), List(<<Dict(<<Ent(K("y"), Num("2"))>>)>>))>>),
     Dict(<<Ent(Op("~", "a"), None), Ent(K("b"), List(<<Num("2")>>))>>),
     Dict(<<>>)}

\* base and override are built as separate objects
HeapMergeInit ==
    /\ MergeIdle
    /\ ConfigIdle
    /\ HeapIdle
    /\ PreIdle
    /\ RelIdle
    /\ LoadIdle
    /\ OwnIdle
    /\ DiffIdle
    /\ \E base \in HeapMergeBases, override \in HeapMergeOverrides :
          \E b \in {store(<<>>, base)} :
              \E o \in {store(b.heap, override)} :
                  /\ hm_heap = o.heap
                  /\ hm_base = b.out
                  /\ hm_override = o.out
                  /\ hm_orig = [base |-> base, override |-> override]
    /\ hm_result = NotRun
    /\ hm_phase = "input"
    /\ hm_nmut = 0

\* result = merge_configs(base, override)
HeapMergeCall ==
    /\ hm_phase = "input"
    /\ \E r \in {heap_merge_configs(hm_heap, hm_base, hm_override, FALSE)} :
          /\ hm_heap' = r.heap
          /\ hm_result' = r.out
    /\ hm_phase' = "merged"
    /\ UNCHANGED <<hm_base, hm_override, hm_orig, hm_nmut>>
    /\ UNCHANGED <<mergeVars, configVars, heapVars, preVars, relVars, loadVars, ownVars, diffVars>>

\* an assignment obj[k] = 9 into a dict or list reachable from the result
HeapMergeMutate ==
    /\ hm_phase \in {"merged", "mutated"}
    /\ hm_result.ok
    /\ hm_nmut < MaxMutations
    /\ \E addr \in HeapReach(hm_heap, hm_result.val) :
          \E i \in DOMAIN hm_heap[addr].v :
              hm_heap' = heap_assign(hm_heap, addr, i, Num("9"))
    /\ hm_phase' = "mutated"
    /\ hm_nmut' = hm_nmut + 1
    /\ UNCHANGED <<hm_base, hm_override, hm_result, hm_orig>>
    /\ UNCHANGED <<mergeVars, configVars, heapVars, preVars, relVars, loadVars, ownVars, diffVars>>

HeapMergeNext == HeapMergeCall \/ HeapMergeMutate

SpecHeapMerge == HeapMergeInit /\ [][HeapMergeNext]_vars

\* C17: merge_configs leaves base and override as they were, returns the value
\* that the two trees determine, and returns a tree that shares no dict or
\* list with base or override, so that assignments into the result change
\* neither of them
C17_MergeShares ==
    hm_phase \in {"merged", "mutated"}
       => /\ fetch(hm_heap, hm_base) = hm_orig.base
          /\ fetch(hm_heap, hm_override) = hm_orig.override
          /\ hm_result.ok
                => HeapReach(hm_heap, hm_result.val)
                      \cap (HeapReach(hm_heap, hm_base) \cup HeapReach(hm_heap, hm_override))
                   = {}
          /\ hm_phase = "merged"
                => /\ hm_result.ok = merge_configs(hm_orig.base, hm_orig.override, FALSE).ok
                   /\ hm_result.ok
                         => fetch(hm_heap, hm_result.val)
                               = merge_configs(hm_orig.base, hm_orig.override, FALSE).val

-----------------------------------------------------------------------------
(* The empty mapping as an argument of merge_configs *)

\* C18: merge_configs(t, {}) returns a tree equal to t and merge_configs({}, t)
\* returns a tree equal to t, for every tree t, operator-prefixed keys
\* included, and neither call raises
C18_ComposeIdentity ==
    m_phase = "done"
       => /\ m_override = Dict(<<>>) => m_result = Ok(m_base)
          /\ m_base = Dict(<<>>) => m_result = Ok(m_override)

-----------------------------------------------------------------------------
(* loader.py and the file merging of config_parser.py *)

\* the key of the source location attached to a mapping during YAML loading
SPARKWHEEL_METADATA == <<"__sparkwheel_metadata__">>

\* ConfigParser.meta_key
meta_key == <<"_meta_">>

\* ConfigParser._METADATA_REF_KEY
_METADATA_REF_KEY == <<"__source_locations__">>

\* SourceLocation(filepath, line, id); the column is left out
SourceLocation(filepath, line, id) == [file |-> filepath, line |-> line, id |-> id]

\* MetadataRegistry.register(id_path, location): the entry under id_path
register(registry, id_path, location) == (id_path :> location) @@ registry

\* MetadataRegistry.merge(other): the entries of other are added
registry_merge(registry, other) == other @@ registry

\* the ids of the mapping nodes of a YAML document
MappingIds(doc) ==
    {j \in item_ids(doc.tree, <<>>) : isinstance(_get_by_id(doc.tree, j).val, "dict")}

RECURSIVE tagged(_, _, _)
\* the object built from the node at id of the document doc by a YAML loader
\* that attaches __sparkwheel_metadata__ to every mapping (config_parser.py:
\* 507-523)
tagged(doc, node, id) ==
    IF isinstance(node, "dict")
    THEN Dict(<<Ent(SPARKWHEEL_METADATA,
                    Dict(<<Ent(K("file"), Str(<<doc.file>>)),
                           Ent(K("line"), Num(doc.lines[id]))>>))>>
              \o [i \in DOMAIN node.v |->
                    Ent(node.v[i].key, tagged(doc, node.v[i].val, ChildId(node, id, i)))])
    ELSE IF isinstance(node, "list")
    THEN List([i \in DOMAIN node.v |-> tagged(doc, node.v[i], ChildId(node, id, i))])
    ELSE node

\* MetadataTrackingYamlLoader.construct_mapping for a mapping node starting at
\* line: id_path is built from id_path_stack
construct_mapping(registry, filepath, id_path_stack, line) ==
    With(IF id_path_stack # <<>> THEN join_id(id_path_stack) ELSE <<>>, LAMBDA id_path :
        register(registry, id_path, SourceLocation(filepath, line, id_path)))

RECURSIVE construct_document(_, _, _, _)
\* yaml.load: construct_mapping runs once for every mapping node of the
\* document, in the order `order`; id_path_stack is created empty
\* (loader.py:32) and no statement adds to it
construct_document(registry, doc, order, i) ==
    IF i > Len(order) THEN registry
    ELSE construct_document(construct_mapping(registry, doc.file, <<>>, doc.lines[order[i]]),
                            doc, order, i + 1)

RECURSIVE _strip_metadata(_)
\* Loader._strip_metadata and ConfigParser._strip_metadata
_strip_metadata(config) ==
    IF isinstance(config, "dict")
    THEN With(SeqFilterKey(config.v, SPARKWHEEL_METADATA), LAMBDA kept :
             Dict([i \in DOMAIN kept |-> Ent(kept[i].key, _strip_metadata(kept[i].val))]))
    ELSE IF isinstance(config, "list")
    THEN List([i \in DOMAIN config.v |-> _strip_metadata(config.v[i])])
    ELSE config

\* Loader.load_file(filepath) for the document doc found at filepath: raw is
\* the object the YAML loader built, order the order in which it built the
\* mappings
load_file(doc, raw, order) ==
    [config |-> _strip_metadata(raw),
     registry |-> construct_document(<<>>, doc, order, 1)]

\* ConfigParser._extract_metadata(config, ""): an entry for every mapping that
\* holds __sparkwheel_metadata__
_extract_metadata(metadata, config) ==
    With({j \in item_ids(config, <<>>) :
             /\ isinstance(_get_by_id(config, j).val, "dict")
             /\ HasKey(_get_by_id(config, j).val, SPARKWHEEL_METADATA)}, LAMBDA ids :
        [j \in ids |->
            With(GetKey(_get_by_id(config, j).val, SPARKWHEEL_METADATA), LAMBDA meta :
                SourceLocation(GetKey(meta, K("file")).v[1], GetKey(meta, K("line")).v[1],
                               j))] @@ metadata)

RECURSIVE dict_update(_, _, _)
\* d.update(other), from entry i of other on
dict_update(d, items, i) ==
    IF i > Len(items) THEN d
    ELSE dict_update(SetKey(d, items[i].key, items[i].val), items, i + 1)

\* the Python dict _metadata stored as a value of the tree
Locations(metadata) == [k |-> "locations", v |-> metadata]

\* a ConfigParser: its config and its _metadata, and the outcome of the call
ParserState(config, metadata, out) == [config |-> config, metadata |-> metadata, out |-> out]

\* ConfigParser._merge_dict_internal(config_dict), for a config_dict without
\* a _meta_ key of its own
_merge_dict_internal(P, config_dict) ==
    With(merge_configs(IF isinstance(P.config, "dict") THEN DelKey(P.config, meta_key)
                       ELSE Dict(<<>>),
                       config_dict, FALSE), LAMBDA merged :
    IF ~merged.ok THEN ParserState(P.config, P.metadata, merged)
    ELSE With(dict_update(Dict(<<Ent(meta_key, config_get(P.config, meta_key, Dict(<<>>)).val)>>),
                          merged.val.v, 1), LAMBDA content :
         With(_extract_metadata(P.metadata, content), LAMBDA metadata :
         With(_strip_metadata(content), LAMBDA clean_content :
             ParserState(IF DOMAIN metadata = {} THEN clean_content
                         ELSE set_data(clean_content,
                                       meta_key \o <<ID_SEP_KEY>> \o _METADATA_REF_KEY,
                                       Locations(metadata)),
                         metadata, Ok(None))))))

\* ConfigParser._merge_file_internal(filepath): the file is loaded with the
\* metadata attached (_load_config_files_with_metadata) and merged
_merge_file_internal(P, doc) == _merge_dict_internal(P, tagged(doc, doc.tree, <<>>))

-----------------------------------------------------------------------------
(* Specification of a Config and a ConfigParser that load and merge files *)

\* number of files loaded
MaxLoads == 2

\* the YAML documents: the tree, and the line on which each mapping and list
\* node starts
YamlDocs ==
    {[file |-> "a.yaml",
      tree |-> Dict(<<Ent(K("items"), StrList(<<"item1", "item2">>))>>),
      lines |-> (<<>> :> "1") @@ (K("items") :> "2")],
     [file |-> "b.yaml",
      tree |-> Dict(<<Ent(K("model"),
                          Dict(<<Ent(K("optimizer"), Dict(<<Ent(K("lr"), Num("1"))>>))>>))>>),
      lines |-> (<<>> :> "1") @@ (K("model") :> "2")
                   @@ (<<"model", "::", "optimizer">> :> "3")],
     [file |-> "c.yaml",
      tree |-> Dict(<<Ent(K("model"), Dict(<<Ent(K("lr"), Num("2"))>>)),
                      Ent(K("items"), List(<<Dict(<<Ent(K("n"), Num("1"))>>)>>))>>),
      lines |-> (<<>> :> "1") @@ (K("model") :> "2") @@ (K("items") :> "4")
                   @@ (<<"items", "::", "0">> :> "4")],
     [file |-> "d.yaml",
      tree |-> Dict(<<Ent(K("a"), Num("1"))>>),
      lines |-> (<<>> :> "1")],
     [file |-> "e.yaml",
      tree |-> Dict(<<Ent(K("b"), Dict(<<Ent(K("c"), Num("1"))>>))>>),
      lines |-> (<<>> :> "1") @@ (K("b") :> "2")]}

\* the orders in which a YAML loader can build the mappings of a document
MappingOrders(doc) ==
    {order \in [1..Cardinality(MappingIds(doc)) -> MappingIds(doc)] :
        \A i, j \in DOMAIN order : i # j => order[i] # order[j]}

\* config = Config() and parser = ConfigParser(): no file loaded yet
LoadInit ==
    /\ MergeIdle
    /\ ConfigIdle
    /\ HeapIdle
    /\ PreIdle
    /\ RelIdle
    /\ HeapMergeIdle
    /\ OwnIdle
    /\ DiffIdle
    /\ ld_data = Dict(<<>>)
    /\ ld_registry = <<>>
    /\ ld_last = [doc |-> <<>>, config |-> None, registry |-> <<>>]
    /\ cp_config = Dict(<<Ent(meta_key, Dict(<<>>))>>)
    /\ cp_metadata = <<>>
    /\ ld_n = 0

\* one file of Config.load(files), or config.merge(filepath) (config.py:
\* 148-153, 316-320); the YAML loader may or may not attach
\* __sparkwheel_metadata__ to the mappings it builds
ConfigLoadFile ==
    /\ ld_n < MaxLoads
    /\ \E doc \in YamlDocs :
          \E raw \in {doc.tree, tagged(doc, doc.tree, <<>>)}, order \in MappingOrders(doc) :
              \E loaded \in {load_file(doc, raw, order)} :
                  \E merged \in {merge_configs(ld_data, loaded.config, FALSE)} :
                      /\ ld_last' = [doc |-> doc, config |-> loaded.config,
                                     registry |-> loaded.registry]
                      /\ ld_data' = (IF merged.ok THEN merged.val ELSE ld_data)
                      /\ ld_registry' = (IF merged.ok
                                         THEN registry_merge(ld_registry, loaded.registry)
                                         ELSE ld_registry)
    /\ ld_n' = ld_n + 1
    /\ UNCHANGED <<cp_config, cp_metadata>>
    /\ UNCHANGED <<mergeVars, configVars, heapVars, preVars, relVars, heapMergeVars, ownVars, diffVars>>

\* one file of ConfigParser.load(files) (config_parser.py:152-158)
ParserLoadFile ==
    /\ ld_n < MaxLoads
    /\ \E doc \in YamlDocs :
          \E P \in {_merge_file_internal(ParserState(cp_config, cp_metadata, NotRun), doc)} :
              /\ cp_config' = P.config
              /\ cp_metadata' = P.metadata
    /\ ld_n' = ld_n + 1
    /\ UNCHANGED <<ld_data, ld_registry, ld_last>>
    /\ UNCHANGED <<mergeVars, configVars, heapVars, preVars, relVars, heapMergeVars, ownVars, diffVars>>

LoadNext == ConfigLoadFile \/ ParserLoadFile

SpecLoad == LoadInit /\ [][LoadNext]_vars

\* C19: after a file is loaded, the registry holds, for every mapping node and
\* every list node of the document, an entry under the id of the node with
\* the loaded file and the line on which the node starts
C19_RegistryPerNode ==
    ld_last.doc # <<>>
       => \A i \in DOMAIN ld_last.doc.lines :
              /\ i \in DOMAIN ld_last.registry
              /\ ld_last.registry[i].file = ld_last.doc.file
              /\ ld_last.registry[i].line = ld_last.doc.lines[i]

\* the keys of the mappings of a tree, at every depth
AllKeys(tree) ==
    UNION {KeysOf(_get_by_id(tree, j).val) :
              j \in {i \in item_ids(tree, <<>>) : isinstance(_get_by_id(tree, i).val, "dict")}}

\* a tree keeps source locations inside itself: a mapping has the key
\* __sparkwheel_metadata__, or a value under some key is the table of locations
HoldsMetadata(tree) ==
    \/ SPARKWHEEL_METADATA \in AllKeys(tree)
    \/ \E j \in item_ids(tree, <<>>) : _get_by_id(tree, j).val.k = "locations"

\* C20: once files are loaded and merged, the configuration tree holds no
\* synthetic metadata key at any depth: no __sparkwheel_metadata__, and no
\* table of source locations under a key of the tree such as _meta_
C20_NoSyntheticKeys ==
    ld_n > 0 => ~HoldsMetadata(ld_data) /\ ~HoldsMetadata(cp_config)

-----------------------------------------------------------------------------
(* Claims about the `+` and the plain keys of merge_configs *)

\* the tree merge_configs has built when it reaches entry i of the override
MergedBefore(base, override, i) ==
    merge_configs(base, Dict(SubSeq(override.v, 1, i - 1)), FALSE)

\* both values are dicts, or both are lists
SameContainer(a, b) ==
    \/ isinstance(a, "dict") /\ isinstance(b, "dict")
    \/ isinstance(a, "list") /\ isinstance(b, "list")

\* C21 as stated: for every key `+k` of the override, merge_configs raises
\* when k is absent from the base or base[k] and the value are not both dicts
\* or both lists; otherwise result[k] is the recursive merge of two dicts or
\* base[k] followed by the override list; the key `+k` is not in the result
C21_PlusAgainstBase ==
    m_phase = "done"
       => \A i \in DOMAIN m_override.v :
             startswith(m_override.v[i].key, "+")
                => With(Tail(m_override.v[i].key), LAMBDA k :
                   With(m_override.v[i].val, LAMBDA o :
                      IF ~HasKey(m_base, k) THEN ~m_result.ok
                      ELSE IF ~SameContainer(GetKey(m_base, k), o) THEN ~m_result.ok
                      ELSE m_result.ok
                              => /\ HasKey(m_result.val, k)
                                 /\ isinstance(o, "list")
                                       => GetKey(m_result.val, k)
                                             = List(GetKey(m_base, k).v \o o.v)
                                 /\ isinstance(o, "dict")
                                       => Ok(GetKey(m_result.val, k))
                                             = merge_configs(GetKey(m_base, k), o, TRUE)
                                 /\ ~HasKey(m_result.val, m_override.v[i].key)))

\* C21, amended: the same with the tree built from the entries in front of
\* `+k` in the place of the base: the call raises when k is absent from that
\* tree or the two values are not both dicts or both lists; otherwise the
\* entry sets k to the recursive merge or to the list followed by the override
\* list, leaves every other key alone, and adds no key `+k`
C21_PlusAgainstResult ==
    m_phase = "done"
       => \A i \in DOMAIN m_override.v :
             (startswith(m_override.v[i].key, "+") /\ MergedBefore(m_base, m_override, i).ok)
                => With(Tail(m_override.v[i].key), LAMBDA k :
                   With(m_override.v[i].val, LAMBDA o :
                   With(MergedBefore(m_base, m_override, i).val, LAMBDA before :
                   With(MergedBefore(m_base, m_override, i + 1), LAMBDA after :
                      IF ~HasKey(before, k) THEN ~after.ok /\ ~m_result.ok
                      ELSE IF ~SameContainer(GetKey(before, k), o)
                      THEN ~after.ok /\ ~m_result.ok
                      ELSE /\ i = Len(m_override.v) => m_result = after
                           /\ after.ok
                                 => /\ isinstance(o, "list")
                                          => after.val = SetKey(before, k,
                                                List(GetKey(before, k).v \o o.v))
                                    /\ isinstance(o, "dict")
                                          => after.val = SetKey(before, k,
                                                merge_configs(GetKey(before, k), o, TRUE).val)
                                    /\ HasKey(after.val, m_override.v[i].key)
                                          <=> HasKey(before, m_override.v[i].key)))))

\* a `+k` entry appended to a list that an earlier entry of the same override
\* created, k being absent from the base
C21_Witness ==
    /\ m_phase = "done"
    /\ m_result.ok
    /\ \E i \in DOMAIN m_override.v :
          /\ i > 1
          /\ startswith(m_override.v[i].key, "+")
          /\ ~HasKey(m_base, Tail(m_override.v[i].key))
          /\ isinstance(m_override.v[i].val, "list")
          /\ HasKey(m_result.val, Tail(m_override.v[i].key))
          /\ Len(GetKey(m_result.val, Tail(m_override.v[i].key)).v)
                > Len(m_override.v[i].val.v)

\* a plain key of the override that no other entry of the override names
OnlyEntryFor(override, i) ==
    /\ IsPlainKey(override.v[i].key)
    /\ \A j \in DOMAIN override.v :
          j # i => NamedKey(override.v[j].key) # override.v[i].key

\* the example of the docstring of merge_configs (merge.py:70-74)
PropagationBase ==
    Dict(<<Ent(K("a"), Num("1")),
           Ent(K("b"), Dict(<<Ent(K("x"), Num("1")), Ent(K("y"), Num("2"))>>))>>)

PropagationOverride ==
    Dict(<<Ent(K("b"), Dict(<<Ent(Op("+", "x"), Num("10")), Ent(K("z"), Num("3"))>>))>>)

PropagationResult ==
    Dict(<<Ent(K("a"), Num("1")),
           Ent(K("b"), Dict(<<Ent(K("x"), Num("10")), Ent(K("y"), Num("2")),
                              Ent(K("z"), Num("3"))>>))>>)

\* the value under a plain key k holds a `+` key at some depth and base[k] is
\* a dict: a returned tree holds under k the merge of base[k] and the value,
\* in which every plain key with dicts on both sides keeps the keys of the
\* base that the override does not name
PropagatesMerge ==
    (m_phase = "done" /\ m_result.ok)
       => \A i \in DOMAIN m_override.v :
             (/\ OnlyEntryFor(m_override, i)
              /\ _has_merge_directive(m_override.v[i].val)
              /\ HasKey(m_base, m_override.v[i].key)
              /\ isinstance(GetKey(m_base, m_override.v[i].key), "dict"))
                => With(GetKey(m_base, m_override.v[i].key), LAMBDA b :
                   With(m_override.v[i].val, LAMBDA o :
                   With(GetKey(m_result.val, m_override.v[i].key), LAMBDA r :
                      /\ isinstance(r, "dict")
                      /\ \A kk \in KeysOf(b) \ NamedKeys(o) :
                            HasKey(r, kk) /\ GetKey(r, kk) = GetKey(b, kk)
                      /\ \A j \in DOMAIN o.v :
                            (/\ OnlyEntryFor(o, j)
                             /\ isinstance(o.v[j].val, "dict")
                             /\ HasKey(b, o.v[j].key)
                             /\ isinstance(GetKey(b, o.v[j].key), "dict"))
                               => \A kk \in KeysOf(GetKey(b, o.v[j].key))
                                              \ NamedKeys(o.v[j].val) :
                                     /\ HasKey(GetKey(r, o.v[j].key), kk)
                                     /\ GetKey(GetKey(r, o.v[j].key), kk)
                                           = GetKey(GetKey(b, o.v[j].key), kk))))

\* a returned tree in which a plain dict-valued key inside a propagated merge
\* was merged
PropagationReached ==
    /\ m_phase = "done"
    /\ m_result.ok
    /\ \E i \in DOMAIN m_override.v :
          /\ OnlyEntryFor(m_override, i)
          /\ _has_merge_directive(m_override.v[i].val)
          /\ HasKey(m_base, m_override.v[i].key)
          /\ isinstance(GetKey(m_base, m_override.v[i].key), "dict")
          /\ \E j \in DOMAIN m_override.v[i].val.v :
                /\ isinstance(m_override.v[i].val.v[j].val, "dict")
                /\ HasKey(GetKey(m_base, m_override.v[i].key), m_override.v[i].val.v[j].key)

\* C22: a dict under a plain key k that holds a `+` key at any depth is merged
\* into a dict base[k] instead of replacing it, every plain dict-valued key
\* inside being merged as well; base {a:1, b:{x:1,y:2}} with override
\* {b:{+x:10, z:3}} yields {a:1, b:{x:10,y:2,z:3}}
C22_ImplicitPropagation ==
    /\ PropagatesMerge
    /\ (m_phase = "done" /\ m_base = PropagationBase /\ m_override = PropagationOverride)
          => m_result = Ok(PropagationResult)

-----------------------------------------------------------------------------
(* Specification of a Config that is loaded once and resolved several times *)

\* number of resolve calls
MaxResolves == 2

\* a reference chain into a container with a reference, an expression and a
\* plain child
TreeChain ==
    Dict(<<Ent(K("a"), Num("1")), Ent(K("b"), Str(<<"@", "a">>)),
           Ent(K("c"), Dict(<<Ent(K("x"), Str(<<"@", "b">>)),
                              Ent(K("y"), Str(<<"$", "@", "a">>)),
                              Ent(K("q"), Num("1"))>>))>>)

\* a component with a _requires_ entry that refers to an import
TreeRequires ==
    Dict(<<Ent(K("a"), Str(<<"$", "import">>)),
           Ent(K("c"), Comp("t", <<Ent(REQUIRES_KEY, List(<<Str(<<"$", "@", "a">>)>>)),
                                   Ent(K("x"), Str(<<"@", "b">>))>>)),
           Ent(K("b"), Num("2"))>>)

\* a reference to a missing id behind another reference
TreeMissing ==
    Dict(<<Ent(K("a"), Str(<<"@", "zz">>)), Ent(K("b"), Str(<<"@", "a">>)),
           Ent(K("c"), Num("1"))>>)

\* a component and an expression at the top level
TreeOptions ==
    Dict(<<Ent(K("a"), Comp("t", <<Ent(K("x"), Num("1"))>>)),
           Ent(K("b"), Str(<<"$", "1", "+", "1">>)),
           Ent(K("c"), List(<<Str(<<"$", "boom">>), Comp("bad", <<>>)>>))>>)

ResolveTrees == {TreeChain, TreeRequires, TreeMissing, TreeOptions, TreeCycle}

\* config = Config.load(tree)
ResolveInit ==
    /\ MergeIdle
    /\ HeapIdle
    /\ AuxIdle
    /\ \E tree \in ResolveTrees :
          \E C \in {config_init(tree)} :
              /\ c_data = C.data
              /\ c_is_parsed = C.is_parsed
              /\ r_items = C.resolver.items
              /\ r_resolved = C.resolver.resolved
              /\ r_in_progress = C.resolver.in_progress
    /\ c_last = [Call("load", <<>>, None, NoArgs, config_init(None), config_init(None),
                      TRUE, FALSE, [op |-> "none", out |-> Ok(None), changed |-> FALSE,
                                    pre_resolved |-> <<>>])
                   EXCEPT !.out = Ok(None)]
    /\ g_evals = <<>>
    /\ g_writes = <<>>
    /\ g_mut = TRUE
    /\ g_clean = FALSE
    /\ c_nops = 0

\* config.resolve(id, instantiate, eval_expr, lazy, default); g_writes is the
\* order in which the entries of the memo were written
ResolveCall ==
    /\ c_nops < MaxResolves
    /\ \E id \in ResolveIds, a \in ResolveArgs :
          \E C \in {config_resolve(TheConfig, id, a.opts, a.lazy, a.dflt)} :
              /\ Becomes(C)
              /\ c_last' = Call("resolve", id, None, a, TheConfig, C, g_mut, g_clean, c_last)
              /\ g_evals' = (IF C.parsed THEN <<>> ELSE g_evals) \o C.resolver.evals
              /\ g_writes' = (IF C.parsed THEN <<>> ELSE g_writes) \o C.resolver.writes
              /\ g_mut' = (g_mut /\ ~(C.parsed /\ C.is_parsed))
              /\ g_clean' = (g_clean \/ (C.parsed /\ C.is_parsed))
    /\ c_nops' = c_nops + 1
    /\ UNCHANGED <<mergeVars, heapVars, auxVars>>

ResolveNext == ResolveCall

SpecResolve == ResolveInit /\ [][ResolveNext]_vars

\* the ids the strings of the node at id refer to, at any depth
RefsIn(tree, id) ==
    UNION {With(_get_by_id(tree, j).val, LAMBDA n :
              IF ~isinstance(n, "str") THEN {}
              ELSE IF startswith(n.v, EXPR_KEY)
              THEN {scan_refs(n.v, 1)[i] : i \in DOMAIN scan_refs(n.v, 1)}
              ELSE IF IsWholeRef(n.v) THEN {IdRun(n.v, 2)}
              ELSE {}) : j \in item_ids(_get_by_id(tree, id).val, id)}

\* the children of the container at id
ChildrenOf(tree, id) ==
    With(_get_by_id(tree, id).val, LAMBDA n :
        IF IsContainer(n) THEN {ChildId(n, id, i) : i \in DOMAIN n.v} ELSE {})

\* the expressions and components below id, at any depth
ItemsBelow(tree, id) ==
    {j \in item_ids(_get_by_id(tree, id).val, id) \ {id} :
        \/ is_expression(_get_by_id(tree, j).val)
        \/ is_instantiable(_get_by_id(tree, j).val)}

\* the _requires_ entries of the component at id
RequiresOf(tree, id) ==
    With(_get_by_id(tree, id).val, LAMBDA n :
        IF is_instantiable(n) /\ HasKey(n, REQUIRES_KEY)
        THEN ChildrenOf(tree, sub_id_of(id, REQUIRES_KEY)) ELSE {})

\* every id of deps(id) was written to the memo before id was
WrittenAfter(deps(_)) ==
    \A p \in DOMAIN g_writes :
        \A d \in deps(g_writes[p]) : \E q \in 1..(p - 1) : g_writes[q] = d

SpuriousCycle ==
    /\ c_last.op = "resolve"
    /\ c_last.rout = Raise("CircularReference")
    /\ ~ReachesCycle(c_data, c_last.id)

\* C24: after a resolve call has failed, no id is left in progress, and a
\* later resolve(j) on the same resolver raises CircularReference only if j
\* reaches a reference cycle
C24_FailureLeavesNoneInProgress ==
    /\ (c_last.op = "resolve" /\ c_last.rout # NotRun /\ ~c_last.rout.ok)
          => r_in_progress = <<>>
    /\ ~SpuriousCycle

\* the last call resolved an id of the tree lazily, after a completed parse
\* with no set or merge since
LazyResolve ==
    /\ c_last.op = "resolve"
    /\ c_last.prev = "resolve"
    /\ ~c_last.parsed
    /\ c_last.rout # NotRun

\* what the resolver returns for id with the options opts on a Config newly
\* built over tree
FreshValue(tree, id, opts) == FreshResolve(tree, id, opts, TRUE, None)

\* C25: the value resolve(id, instantiate, eval_expr) returns depends on the
\* tree and on the options of this call only, not on the options of the
\* resolve calls made before
C25_OptionsOfThisCall ==
    (LazyResolve /\ c_last.rout.ok)
       => c_last.rout = FreshValue(c_data, c_last.id, c_last.opts)

\* C26: Config.resolve(id, default=d) returns d only when id itself is not an
\* item of the config; when id is an item and an id it refers to is missing,
\* the key error reaches the caller
C26_DefaultOnlyForAbsentId ==
    (c_last.op = "resolve" /\ c_last.rout = Raise("KeyNotFound") /\ c_last.dflt # None)
       => IF contains(c_data, c_last.id)
          THEN c_last.out = c_last.rout
          ELSE c_last.out = Ok(c_last.dflt)

-----------------------------------------------------------------------------
(* Specification of a Config under merge calls with dict literals *)

\* the loaded trees
PathTrees ==
    {Dict(<<Ent(K("a"), Num("1")),
            Ent(K("b"), Dict(<<Ent(K("x"), Num("1")), Ent(K("y"), Num("2"))>>)),
            Ent(K("m"), Dict(<<Ent(K("lr"), Num("1"))>>))>>),
     Dict(<<Ent(K("m"), Dict(<<Ent(K("lr"), Num("1"))>>)),
            Ent(K("p"), StrList(<<"a">>))>>)}

\* entries whose key holds no `::`: plain, `+k` and `~k`, for keys that are
\* in a tree and keys that are not
PathEntries ==
    {Ent(K("a"), Num("2")),
     Ent(K("b"), Dict(<<Ent(K("z"), Num("3"))>>)),
     Ent(K("b"), Dict(<<Ent(K("x"), Dict(<<Ent(Op("+", "w"), Num("1"))>>))>>)),
     Ent(Op("+", "b"), Dict(<<Ent(K("z"), Num("3"))>>)),
     Ent(Op("+", "p"), StrList(<<"b">>)),
     Ent(Op("+", "zz"), Dict(<<Ent(K("x"), Num("1"))>>)),
     Ent(Op("~", "a"), None),
     Ent(Op("~", "zz"), None)}

\* an entry whose key holds `::`
NestedEntry == Ent(<<"m", "::", "lr">>, Num("9"))

\* the dicts passed to merge: one entry, alone or followed by the nested one
PathSources ==
    {Dict(<<e>>) : e \in PathEntries} \cup {Dict(<<e, NestedEntry>>) : e \in PathEntries}
       \cup {Dict(<<NestedEntry>>)}

\* config = Config.load(tree)
PathInit ==
    /\ MergeIdle
    /\ HeapIdle
    /\ AuxIdle
    /\ \E tree \in PathTrees :
          \E C \in {config_init(tree)} :
              /\ c_data = C.data
              /\ c_is_parsed = C.is_parsed
              /\ r_items = C.resolver.items
              /\ r_resolved = C.resolver.resolved
              /\ r_in_progress = C.resolver.in_progress
    /\ c_last = [Call("load", <<>>, None, NoArgs, config_init(None), config_init(None),
                      TRUE, FALSE, [op |-> "none", out |-> Ok(None), changed |-> FALSE,
                                    pre_resolved |-> <<>>])
                   EXCEPT !.out = Ok(None)]
    /\ g_evals = <<>>
    /\ g_writes = <<>>
    /\ g_mut = TRUE
    /\ g_clean = FALSE
    /\ c_nops = 0

\* config.merge(source) with a dict literal
PathMerge ==
    /\ c_nops < MaxCalls
    /\ \E source \in PathSources :
          \E C \in {config_merge_call(TheConfig, source)} :
              /\ Becomes(C)
              /\ c_last' = Call("merge", <<>>, source, NoArgs, TheConfig, C, g_mut, g_clean, c_last)
              /\ g_mut' = (g_mut \/ C.out.ok)
    /\ g_evals' = <<>>
    /\ g_writes' = <<>>
    /\ g_clean' = FALSE
    /\ c_nops' = c_nops + 1
    /\ UNCHANGED <<mergeVars, heapVars, auxVars>>

PathNext == PathMerge

SpecPathMerge == PathInit /\ [][PathNext]_vars

\* the tree and the outcome of merge({entry}) followed, when it returns, by
\* merge({nested})
OneThenNested(data, entry, nested) ==
    With(config_merge(data, Dict(<<entry>>)), LAMBDA first :
        IF ~first.out.ok THEN [data |-> first.data, out |-> first.out]
        ELSE With(config_merge(first.data, Dict(<<nested>>)), LAMBDA second :
                 [data |-> second.data, out |-> second.out]))

\* C27: in Config.merge(dict) an entry whose key holds no `::` changes the
\* tree and raises as it does alone, whether or not another key of the dict
\* holds `::`
C27_SameWithNestedKey ==
    (c_last.op = "merge" /\ Len(c_last.value.v) = 2)
       => [data |-> c_data, out |-> c_last.out]
             = OneThenNested(c_last.pre_data, c_last.value.v[1], c_last.value.v[2])

-----------------------------------------------------------------------------
(* Termination of the preprocessing *)

\* the tree holds a macro that names a file
HasFileMacro(tree) ==
    \E tok \in MacroTokens(tree, <<>>) : split_path_id(Tail(tok)).path # <<>>

\* a macro of the tree is written inside its own target: it names the node
\* it is in or one of the ancestors of that node
MacroNamesAncestor(tree) ==
    \E j \in item_ids(tree, <<>>) :
        With(_get_by_id(tree, j).val, LAMBDA n :
            /\ isinstance(n, "str")
            /\ With(resolve_relative_ids(j, n.v), LAMBDA rel :
                   /\ rel.ok
                   /\ startswith(rel.val, MACRO_KEY)
                   /\ Tail(rel.val) # <<>>
                   /\ Len(Tail(rel.val)) < Len(j)
                   /\ SubSeq(j, 1, Len(Tail(rel.val)) + 1)
                         = Tail(rel.val) \o <<ID_SEP_KEY>>))

\* C29: the preprocessing of a tree whose macros are all local ends: it
\* returns the rewritten tree or raises the circular-macro error, a missing
\* key error or the out-of-range error of a relative id, and its recursion
\* never reaches the recursion limit, also when a macro names one of its own
\* ancestors or macros chain through several levels
C29_PreprocessingTerminates ==
    (p_phase = "done" /\ ~HasFileMacro(p_loaded))
       => /\ p_out # RecursionError
          /\ \/ p_out.ok /\ p_out.val = p_data
             \/ p_out \in {CircularMacro, OutOfRange, Raise("KeyError"),
                           Raise("IndexError"), Raise("ValueError")}
          /\ MacroNamesAncestor(p_loaded) => ~p_out.ok

\* the run over a tree with {c: "%::::b"} under b, a macro that names its
\* parent, ended with the circular-macro error
C29_Witness ==
    /\ p_phase = "done"
    /\ ~HasFileMacro(p_loaded)
    /\ MacroNamesAncestor(p_loaded)
    /\ _get_by_id(p_loaded, K("b")).val = Dict(<<Ent(K("c"), Str(<<"%", "::", "::", "b">>))>>)
    /\ p_out = CircularMacro

-----------------------------------------------------------------------------
(* diff_configs (diff.py) over pairs of dicts, resolve = False *)

\* number of diff_configs calls
MaxDiffs == 2

\* a floating value, by its token; float("nan") is Float("nan")
Float(tok) == [k |-> "float", v |-> <<tok>>]

NaN == Float("nan")

\* the number a bool or an int compares as
py_num(x) == IF isinstance(x, "bool") THEN (IF x = True THEN 1 ELSE 0) ELSE IntOf(x.v[1])

IsIntLike(x) == isinstance(x, "bool") \/ (isinstance(x, "int") /\ IsIntStr(x.v))

RECURSIVE py_eq(_, _)
\* Python's a == b on values that are different objects: NaN equals nothing,
\* True == 1, lists compare by position and dicts by key
py_eq(a, b) ==
    IF a = NaN \/ b = NaN THEN FALSE
    ELSE IF IsIntLike(a) /\ IsIntLike(b) THEN py_num(a) = py_num(b)
    ELSE IF isinstance(a, "list") /\ isinstance(b, "list")
    THEN /\ Len(a.v) = Len(b.v)
         /\ \A i \in DOMAIN a.v : py_eq(a.v[i], b.v[i])
    ELSE IF isinstance(a, "dict") /\ isinstance(b, "dict")
    THEN /\ KeysOf(a) = KeysOf(b)
         /\ \A key \in KeysOf(a) : py_eq(GetKey(a, key), GetKey(b, key))
    ELSE a = b

\* dict.update: the entries of new over those of items
flat_update(items, new) ==
    [key \in DOMAIN items \cup DOMAIN new |->
        IF key \in DOMAIN new THEN new[key] ELSE items[key]]

RECURSIVE _flatten_config(_, _), flatten_loop(_, _, _, _)
\* the loop of _flatten_config from entry i on, items being the dict built so far
flatten_loop(config, parent_key, i, items) ==
    IF i > Len(config.v) THEN items
    ELSE With(config.v[i], LAMBDA e :
         IF e.key = meta_key THEN flatten_loop(config, parent_key, i + 1, items)
         ELSE With(IF parent_key # <<>> THEN parent_key \o <<ID_SEP_KEY>> \o e.key ELSE e.key,
                   LAMBDA new_key :
              IF isinstance(e.val, "dict")
              THEN flatten_loop(config, parent_key, i + 1,
                                flat_update(items, _flatten_config(e.val, new_key)))
              ELSE flatten_loop(config, parent_key, i + 1,
                                flat_update(items, new_key :> e.val))))

\* _flatten_config(config, parent_key): flat key -> value
_flatten_config(config, parent_key) == flatten_loop(config, parent_key, 1, <<>>)

\* {k: v for k, v in flat.items() if k not in ignore_keys}, when ignore_keys
\* is not empty
ignore_filter(flat, ignore_keys) ==
    IF ignore_keys = {} THEN flat
    ELSE [key \in DOMAIN flat \ ignore_keys |-> flat[key]]

ConfigDiff(added, removed, changed, unchanged) ==
    [added |-> added, removed |-> removed, changed |-> changed, unchanged |-> unchanged]

\* diff_configs(config1, config2, resolve=False, ignore_keys)
diff_configs(config1, config2, ignore_keys) ==
    With(ignore_filter(_flatten_config(config1, <<>>), ignore_keys), LAMBDA flat1 :
    With(ignore_filter(_flatten_config(config2, <<>>), ignore_keys), LAMBDA flat2 :
    With({key \in DOMAIN flat1 \cap DOMAIN flat2 : py_eq(flat1[key], flat2[key])},
         LAMBDA same :
        ConfigDiff([key \in DOMAIN flat2 \ DOMAIN flat1 |-> flat2[key]],
                   [key \in DOMAIN flat1 \ DOMAIN flat2 |-> flat1[key]],
                   [key \in (DOMAIN flat1 \cap DOMAIN flat2) \ same |->
                       <<flat1[key], flat2[key]>>],
                   [key \in same |-> flat1[key]]))))

\* ConfigDiff.has_changes
has_changes(diff) ==
    DOMAIN diff.added # {} \/ DOMAIN diff.removed # {} \/ DOMAIN diff.changed # {}

\* the dicts compared: flat and nested, with a _meta_ section, an empty
\* section, a list, a bool, a key that holds the separator, and a NaN
DiffTrees ==
    {Dict(<<Ent(K("a"), Num("1")), Ent(K("b"), Num("2"))>>),
     Dict(<<Ent(K("b"), Num("2")), Ent(K("a"), Num("1")), Ent(K("r"), List(<<Num("1")>>))>>),
     Dict(<<Ent(K("a"), Num("4")), Ent(K("b"), Num("2")), Ent(K("c"), Num("3"))>>),
     Dict(<<Ent(K("a"), True)>>),
     Dict(<<Ent(K("m"), Dict(<<Ent(K("lr"), Num("1")), Ent(K("h"), Num("2"))>>))>>),
     Dict(<<Ent(K("m"), Dict(<<Ent(K("lr"), Num("2")), Ent(K("h"), Num("2")),
                                Ent(K("d"), List(<<Num("1")>>))>>)),
            Ent(meta_key, Dict(<<Ent(K("v"), Num("1"))>>))>>),
     Dict(<<Ent(K("m"), Dict(<<>>)), Ent(K("a"), Num("1"))>>),
     Dict(<<Ent(<<"m", "::", "lr">>, Num("1")),
            Ent(K("m"), Dict(<<Ent(K("lr"), Num("2"))>>))>>),
     Dict(<<Ent(K("a"), Num("1")), Ent(K("x"), NaN)>>)}

DiffIgnores == {{}, {K("a")}, {<<"m", "::", "lr">>, K("zz")}}

DiffInit ==
    /\ MergeIdle
    /\ ConfigIdle
    /\ HeapIdle
    /\ PreIdle
    /\ RelIdle
    /\ HeapMergeIdle
    /\ LoadIdle
    /\ OwnIdle
    /\ DiffIdle

\* diff = diff_configs(config1, config2, ignore_keys=ignore)
DiffCall ==
    /\ d_n < MaxDiffs
    /\ \E config1 \in DiffTrees, config2 \in DiffTrees, ignore \in DiffIgnores :
          /\ d_config1' = config1
          /\ d_config2' = config2
          /\ d_ignore' = ignore
          /\ d_out' = diff_configs(config1, config2, ignore)
    /\ d_n' = d_n + 1
    /\ UNCHANGED <<mergeVars, configVars, heapVars, preVars, relVars, heapMergeVars,
                   loadVars, ownVars>>

DiffNext == DiffCall

SpecDiff == DiffInit /\ [][DiffNext]_vars

RECURSIVE LeafPaths(_, _)
\* the "::"-joined paths from the root of config through dicts to the values
\* that are not dicts, none of them through a _meta_ key
LeafPaths(config, prefix) ==
    UNION {With(IF prefix # <<>> THEN prefix \o <<ID_SEP_KEY>> \o config.v[i].key
                ELSE config.v[i].key, LAMBDA path :
               IF config.v[i].key = meta_key THEN {}
               ELSE IF isinstance(config.v[i].val, "dict")
               THEN LeafPaths(config.v[i].val, path)
               ELSE {path})
           : i \in DOMAIN config.v}

\* the flattened ids of config that ignore_keys leaves
DiffIds(config, ignore_keys) == LeafPaths(config, <<>>) \ ignore_keys

\* the value diff_configs compares at a flattened id
DiffValue(config, id) == _flatten_config(config, <<>>)[id]

\* added, removed, changed and unchanged are pairwise disjoint, their union is
\* ids(c1) \cup ids(c2), added holds the ids only in c2 with their values,
\* removed those only in c1, and changed and unchanged split the common ids
\* by the inequality and equality of their values
DiffPartitions ==
    d_n > 0 =>
       LET ids1 == DiffIds(d_config1, d_ignore)
           ids2 == DiffIds(d_config2, d_ignore)
           A == DOMAIN d_out.added
           R == DOMAIN d_out.removed
           C == DOMAIN d_out.changed
           U == DOMAIN d_out.unchanged
       IN  /\ A \cap R = {} /\ A \cap C = {} /\ A \cap U = {}
           /\ R \cap C = {} /\ R \cap U = {} /\ C \cap U = {}
           /\ A \cup R \cup C \cup U = ids1 \cup ids2
           /\ A = ids2 \ ids1
           /\ R = ids1 \ ids2
           /\ C = {id \in ids1 \cap ids2 :
                      ~py_eq(DiffValue(d_config1, id), DiffValue(d_config2, id))}
           /\ U = {id \in ids1 \cap ids2 :
                      py_eq(DiffValue(d_config1, id), DiffValue(d_config2, id))}
           /\ \A id \in A : d_out.added[id] = DiffValue(d_config2, id)
           /\ \A id \in R : d_out.removed[id] = DiffValue(d_config1, id)
           /\ has_changes(d_out) <=> (A # {} \/ R # {} \/ C # {})

\* a call that filled all four parts
DiffPartitionsReached ==
    /\ d_n > 0
    /\ DOMAIN d_out.added # {} /\ DOMAIN d_out.removed # {}
    /\ DOMAIN d_out.changed # {} /\ DOMAIN d_out.unchanged # {}
    /\ d_ignore # {}

\* C30: diff_configs(c1, c2) partitions the flattened ids into added, removed,
\* changed and unchanged as above, has_changes() is true exactly when added,
\* removed or changed is not empty, and diff_configs(c, c) has no changes
C30_DiffPartition ==
    /\ DiffPartitions
    /\ (d_n > 0 /\ d_config1 = d_config2) => ~has_changes(d_out)

-----------------------------------------------------------------------------
(* Specification of a Config loaded from a dict of the caller, over objects: *)
(* set, merge and resolve calls on it, and what they do to that dict         *)

\* number of calls on the Config
MaxOwnOps == 2

\* Config._data and the heap after a call
Owned(heap, data) == [heap |-> heap, data |-> data]

RECURSIVE heap_set_walk(_, _, _, _)
\* the path-creating loop and the final assignment of Config.set
\* (config.py:208-218), current being the address of a dict object
heap_set_walk(H, current, keys, value) ==
    IF Len(keys) = 1 THEN heap_setkey(H, current, keys[1], value)
    ELSE IF /\ HasKey(H[current], keys[1])
            /\ heap_kind(H, GetKey(H[current], keys[1])) = "dict"
    THEN heap_set_walk(H, AddrOf(GetKey(H[current], keys[1])), Tail(keys), value)
    ELSE heap_set_walk(heap_setkey(Append(H, Dict(<<>>)), current, keys[1], Ref(Len(H) + 1)),
                       Len(H) + 1, Tail(keys), value)

\* Config.set(id, value) over objects: value is stored as it is passed
heap_config_set(H, data, id, value) ==
    IF id = <<>> THEN Owned(H, value)
    ELSE IF heap_kind(H, data) # "dict"
    THEN Owned(heap_set_walk(Append(H, Dict(<<>>)), Len(H) + 1, split_id(id), value),
               Ref(Len(H) + 1))
    ELSE Owned(heap_set_walk(H, AddrOf(data), split_id(id), value), data)

\* Config.merge, `~key` branch (config.py:289-304) over objects: del
\* parent[keys[-1]] on the parent object
heap_merge_delete(H, data, actual_key) ==
    With(split_id(actual_key), LAMBDA keys :
    With(IF Len(keys) > 1
         THEN heap_get_by_id(H, data, join_id(SubSeq(keys, 1, Len(keys) - 1))).val
         ELSE data, LAMBDA parent :
        IF heap_kind(H, parent) = "dict" /\ HasKey(H[AddrOf(parent)], keys[Len(keys)])
        THEN [H EXCEPT ![AddrOf(parent)] = DelKey(H[AddrOf(parent)], keys[Len(keys)])]
        ELSE H))

RECURSIVE heap_merge_paths(_, _, _, _)
\* Config.merge, key-value updates (config.py:279-310) over objects, from
\* entry i on; an error of merge_configs ends the call
heap_merge_paths(H, data, items, i) ==
    IF i > Len(items) THEN Owned(H, data)
    ELSE
      With(items[i].key, LAMBDA key :
      With(items[i].val, LAMBDA value :
      IF startswith(key, MERGE_KEY) THEN
          IF /\ heap_get_by_id(H, data, Tail(key)).ok
             /\ heap_kind(H, heap_get_by_id(H, data, Tail(key)).val) = "dict"
             /\ heap_kind(H, value) = "dict"
          THEN With(heap_merge_configs(H, heap_get_by_id(H, data, Tail(key)).val, value, FALSE),
                    LAMBDA merged :
                   IF ~merged.out.ok THEN Owned(merged.heap, data)
                   ELSE With(heap_config_set(merged.heap, data, Tail(key), merged.out.val),
                             LAMBDA s : heap_merge_paths(s.heap, s.data, items, i + 1)))
          ELSE With(heap_config_set(H, data, Tail(key), value),
                    LAMBDA s : heap_merge_paths(s.heap, s.data, items, i + 1))
      ELSE IF startswith(key, DELETE_KEY) THEN
          IF heap_get_by_id(H, data, Tail(key)).ok
          THEN heap_merge_paths(heap_merge_delete(H, data, Tail(key)), data, items, i + 1)
          ELSE heap_merge_paths(H, data, items, i + 1)
      ELSE With(heap_config_set(H, data, key, value),
                LAMBDA s : heap_merge_paths(s.heap, s.data, items, i + 1))))

\* Config.merge(source) over objects, source being a dict object of the caller
heap_config_merge(H, data, source) ==
    IF \E i \in DOMAIN H[AddrOf(source)].v :
          Contains(lstrip(lstrip(H[AddrOf(source)].v[i].key, MERGE_KEY), DELETE_KEY),
                   ID_SEP_KEY)
    THEN heap_merge_paths(H, data, H[AddrOf(source)].v, 1)
    ELSE With(heap_merge_configs(H, data, source, FALSE), LAMBDA merged :
             Owned(merged.heap, IF merged.out.ok THEN merged.out.val ELSE data))

\* Config._parse over objects: _resolve_macros_and_relative_ids assigns the
\* rewritten tree to _data; the parser and the resolver read the tree
heap_config_parse(H, data) ==
    With(heap_resolve_macros(H, data), LAMBDA r :
        Owned(r.heap, IF r.out.ok THEN r.out.val ELSE data))

\* the dict literals the caller passes to Config.load
OwnTrees ==
    {Dict(<<Ent(K("a"), Num("1")), Ent(K("m"), Dict(<<Ent(K("lr"), Num("1"))>>))>>),
     Dict(<<Ent(K("t"), Dict(<<Ent(K("v"), Num("1"))>>)), Ent(K("x"), Str(<<"%", "t">>))>>),
     Dict(<<Ent(K("a"), Dict(<<Ent(K("b"), Str(<<"@", "::", "c">>)),
                              Ent(K("c"), Num("1"))>>))>>),
     Dict(<<>>)}

\* the ids and values of the set calls
OwnSetIds == {<<>>, K("a"), <<"m", "::", "lr">>, <<"n", "::", "k">>}

OwnSetValues == {Num("9"), Dict(<<Ent(K("z"), Num("1"))>>)}

\* the dicts of the merge calls: structural, by path, with a delete
OwnMergeSources ==
    {Dict(<<Ent(K("b"), Num("2"))>>),
     Dict(<<Ent(<<"m", "::", "lr">>, Num("9"))>>),
     Dict(<<Ent(<<"~", "a">>, None), Ent(<<"m", "::", "x">>, Num("1"))>>),
     Dict(<<Ent(<<"+", "m">>, Dict(<<Ent(K("x"), Num("1"))>>)),
            Ent(<<"t", "::", "w">>, Num("2"))>>)}

\* the record of a call on the Config
OwnCall(op, id, value) == [op |-> op, id |-> id, value |-> value]

\* source = {...}; config = Config.load(source): _data is the caller's dict
OwnInit ==
    /\ MergeIdle
    /\ ConfigIdle
    /\ HeapIdle
    /\ PreIdle
    /\ RelIdle
    /\ HeapMergeIdle
    /\ LoadIdle
    /\ DiffIdle
    /\ \E tree \in OwnTrees :
          /\ \E stored \in {store(<<>>, tree)} :
                /\ o_heap = stored.heap
                /\ o_source = stored.out
                /\ o_data = stored.out
          /\ o_loaded = tree
    /\ o_is_parsed = FALSE
    /\ o_last = <<>>
    /\ o_n = 0

\* config.set(id, value), value being built by the caller
OwnSet ==
    /\ o_n < MaxOwnOps
    /\ \E id \in OwnSetIds, value \in OwnSetValues :
          /\ \E stored \in {store(o_heap, value)} :
                \E s \in {heap_config_set(stored.heap, o_data, id, stored.out)} :
                    /\ o_heap' = s.heap
                    /\ o_data' = s.data
          /\ o_last' = OwnCall("set", id, value)
    /\ o_is_parsed' = FALSE
    /\ o_n' = o_n + 1
    /\ UNCHANGED <<o_source, o_loaded>>
    /\ UNCHANGED <<mergeVars, configVars, heapVars, preVars, relVars, heapMergeVars,
                   loadVars, diffVars>>

\* config.merge(source), source being built by the caller
OwnMerge ==
    /\ o_n < MaxOwnOps
    /\ \E source \in OwnMergeSources :
          /\ \E stored \in {store(o_heap, source)} :
                \E s \in {heap_config_merge(stored.heap, o_data, stored.out)} :
                    /\ o_heap' = s.heap
                    /\ o_data' = s.data
          /\ o_last' = OwnCall("merge", <<>>, source)
    /\ o_is_parsed' = FALSE
    /\ o_n' = o_n + 1
    /\ UNCHANGED <<o_source, o_loaded>>
    /\ UNCHANGED <<mergeVars, configVars, heapVars, preVars, relVars, heapMergeVars,
                   loadVars, diffVars>>

\* config.resolve(): parses when the Config is not parsed
OwnResolve ==
    /\ o_n < MaxOwnOps
    /\ \E s \in {IF o_is_parsed THEN Owned(o_heap, o_data)
                 ELSE heap_config_parse(o_heap, o_data)} :
          /\ o_heap' = s.heap
          /\ o_data' = s.data
    /\ o_is_parsed' = TRUE
    /\ o_last' = OwnCall("resolve", <<>>, None)
    /\ o_n' = o_n + 1
    /\ UNCHANGED <<o_source, o_loaded>>
    /\ UNCHANGED <<mergeVars, configVars, heapVars, preVars, relVars, heapMergeVars,
                   loadVars, diffVars>>

OwnNext == OwnSet \/ OwnMerge \/ OwnResolve

SpecOwn == OwnInit /\ [][OwnNext]_vars

\* the caller's dict is the tree it was when it was passed to Config.load
CallerTreeIntact == fetch(o_heap, o_source) = o_loaded

\* C28: after Config.load(tree) with a dict of the caller, no sequence of set,
\* merge and resolve calls on the Config modifies the dict object the caller
\* passed in
C28_ConfigOwnsItsTree == o_n > 0 => CallerTreeIntact

\* the first call on the Config is a set of a new top-level key, and the
\* caller's dict now holds that key
C28_SetWritesCallerDict ==
    /\ o_n = 1
    /\ o_last.op = "set"
    /\ o_last.id = K("a")
    /\ o_loaded = Dict(<<>>)
    /\ fetch(o_heap, o_source) = Dict(<<Ent(K("a"), o_last.value)>>)

\* the first call is a resolve, and the caller's dict now holds the expansion
\* of its macro
C28_ParseWritesCallerDict ==
    /\ o_n = 1
    /\ o_last.op = "resolve"
    /\ HasKey(o_loaded, K("x"))
    /\ GetKey(fetch(o_heap, o_source), K("x")) = Dict(<<Ent(K("v"), Num("1"))>>)

\* the calls that rebind _data (set("", value), a structural merge) leave the
\* caller's dict alone
C28_RebindLeavesCallerDict ==
    (o_n = 1 /\ (o_last.op = "set" => o_last.id = <<>>)
             /\ (o_last.op = "merge" => o_last.value = Dict(<<Ent(K("b"), Num("2"))>>))
             /\ o_last.op # "resolve")
        => CallerTreeIntact

=============================================================================
